---- MODULE Spec2Model ----
(***************************************************************************)
(* Offline peer-to-peer scan synchronisation (services/sync): the scan     *)
(* log replica, its merge, the UDP gossip handlers and timers, the SQLite  *)
(* store and the admission check, as a state machine.                      *)
(*                                                                         *)
(* One TLA+ step is one resumption of an async function: the awaited I/O   *)
(* completes (with its outcome) and the continuation runs up to the next   *)
(* await.  Tasks of one device interleave only at awaits, as on the        *)
(* JavaScript event loop.                                                  *)
(***************************************************************************)
EXTENDS Integers, Sequences, FiniteSets, TLC

(***************************************************************************)
(* Bounds of the model.                                                    *)
(***************************************************************************)
MaxCalls == 2         \* handleScannedQRCode is called at most this many times
MaxNet == 3           \* datagrams in flight
MaxSeq == 3           \* sequenceNumber is tracked exactly up to this value
MaxTasks == 2         \* async functions in progress on one device
MaxQueue == 2         \* rows of broadcast_queue

(***************************************************************************)
(* Program constants.                                                      *)
(***************************************************************************)
COOLDOWN_MS == 30000
MAX_RECEIVED_IDS == 1000
RECEIVED_EVICT == 100
ACK_TIMEOUT == 5000
MAX_ATTEMPTS == 5
MAX_QUEUE_ATTEMPTS == 5
QUEUE_LIMIT == 10
PEER_TIMEOUT == 30000
DAY_MS == 24 * 60 * 60 * 1000

Devices == {"dA", "dB", "dC"}

\* rinfo.address of a datagram sent by device d
IpOf(d) ==
  IF d = "dA" THEN "192.168.1.100" ELSE IF d = "dB" THEN "192.168.1.101" ELSE "192.168.1.102"

\* The device identity found in settings (an install that has run before).
StoredId(d) == IF d = "dA" THEN <<1, 0>> ELSE IF d = "dB" THEN <<2, 0>> ELSE <<3, 0>>

\* uuidv4() returns values behind the stored identities
FirstUuid == Cardinality(Devices)

\* QR_CODES, two of the twenty: one infinite pass, one one-use pass.
QR_CODES == {"SAT25IBLXRRU", "SAT25SD724M2"}

\* A code no configuration knows.
UnknownCode == "XXXXXXXXXXXX"

\* qrCode.includes('I')
IncludesI(qrCode) == qrCode \in {"SAT25IBLXRRU", "SAT25SI3IVAX"}

TypeOfCode(qrCode) == IF IncludesI(qrCode) THEN "infinite" ELSE "one-use"

\* qr_config.json: code -> entry.  count and the per-day flags are kept as
\* count and the set of flagged days.
INITIAL_QR_CONFIG ==
  [c \in QR_CODES |-> [type |-> TypeOfCode(c), count |-> 0, days |-> {}]]

(***************************************************************************)
(* Values.                                                                 *)
(***************************************************************************)
\* A UUID is <<p, r>>: p its first 8 characters, r the rest.  Strings of
\* equal length compare character by character: lexicographically.
Uuid(k) == <<k, 0>>

UuidLess(a, b) == a[1] < b[1] \/ (a[1] = b[1] /\ a[2] < b[2])

\* scanId.substring(0, 8)
Prefix8(u) == u[1]

\* a.localeCompare(b) < 0, > 0 on device ids
LocaleCompare(a, b) == IF UuidLess(a, b) THEN -1 ELSE IF UuidLess(b, a) THEN 1 ELSE 0

\* getTodayKey() at clock t: `${day}${month}`.  The clock counts from local
\* midnight of 14 November.
getTodayKey(t) == <<14 + (t \div DAY_MS), "nov">>

SeqToSet(s) == {s[i] : i \in 1..Len(s)}

RECURSIVE SetToSeq(_)
SetToSeq(S) ==
  IF S = {} THEN <<>>
  ELSE LET x == CHOOSE y \in S : TRUE IN <<x>> \o SetToSeq(S \ {x})

RECURSIVE SeqSum(_)
SeqSum(s) == IF s = <<>> THEN 0 ELSE Head(s) + SeqSum(Tail(s))

(***************************************************************************)
(* sortScans: Array.prototype.sort with the (timestamp, deviceId)          *)
(* comparator.  The sort is stable: elements that compare equal keep their *)
(* order.                                                                  *)
(***************************************************************************)
\* comparator(a, b) <= 0
ScanLeq(a, b) ==
  IF a.timestamp # b.timestamp THEN a.timestamp - b.timestamp <= 0
  ELSE LocaleCompare(a.deviceId, b.deviceId) <= 0

\* Insert e behind the last element that does not compare greater.
RECURSIVE InsertStable(_, _)
InsertStable(sorted, e) ==
  IF sorted = <<>> THEN <<e>>
  ELSE LET last == sorted[Len(sorted)] IN
       IF ScanLeq(last, e) THEN Append(sorted, e)
       ELSE Append(InsertStable(SubSeq(sorted, 1, Len(sorted) - 1), e), last)

RECURSIVE sortScans(_)
sortScans(scans) ==
  IF scans = <<>> THEN <<>>
  ELSE InsertStable(sortScans(SubSeq(scans, 1, Len(scans) - 1)), scans[Len(scans)])

(***************************************************************************)
(* calculateStateHash: the ids of all scans, sorted; "empty", or           *)
(* `${length}-${first.substring(0,8)}-${last.substring(0,8)}`.             *)
(* "empty" is <<>>, the formatted string is <<length, first8, last8>>.     *)
(***************************************************************************)
AllScans(ls) == UNION {SeqToSet(ls[c].scans) : c \in DOMAIN ls}

AllScanIds(ls) == {e.scanId : e \in AllScans(ls)}

\* every scanId pushed, once per occurrence
ScanIdCount(ls) ==
  LET codes == SetToSeq(DOMAIN ls)
  IN SeqSum([i \in 1..Len(codes) |-> Len(ls[codes[i]].scans)])

MinUuid(S) == CHOOSE u \in S : \A v \in S : u = v \/ UuidLess(u, v)

MaxUuidOf(S) == CHOOSE u \in S : \A v \in S : u = v \/ UuidLess(v, u)

\* a hash that counts the codes that have scans, not the scans
calculateStateHashByCode(ls) ==
  LET ids == AllScanIds(ls) IN
  IF ScanIdCount(ls) = 0 THEN <<>>
  ELSE <<Cardinality({c \in DOMAIN ls : ls[c].scans # <<>>}),
         Prefix8(MinUuid(ids)), Prefix8(MaxUuidOf(ids))>>

\* a hash that tells no replica from another
calculateStateHashSame(ls) == <<>>

calculateStateHash(ls) ==
  LET ids == AllScanIds(ls) IN
  IF ScanIdCount(ls) = 0 THEN <<>>
  ELSE <<ScanIdCount(ls), Prefix8(MinUuid(ids)), Prefix8(MaxUuidOf(ids))>>

(***************************************************************************)
(* State.  Every per-device variable is a function of the device.          *)
(***************************************************************************)
VARIABLES
  now,                 \* Date.now(), the wall clock
  faulty,              \* the environment may fail a store operation or a send
  net,                 \* datagrams in flight: [to, from, msg]
  uuidCounter,         \* uuidv4() calls so far
  db,                  \* storage.ts: db is open
  socket,              \* network.ts: socket is bound
  deviceId,            \* state.ts: deviceId, <<>> while it is ""
  sequenceNumber,
  localState,          \* qrCode -> [type, scans]
  jsonConfigState,     \* qrCode -> [type, count, days]
  knownDevices,        \* peer deviceId -> DeviceInfo
  pendingAcks,         \* <<messageId, peerId>> -> pending record
  receivedMessageIds,  \* the Set, in insertion order
  intervals,           \* the setInterval timers that run
  scans,               \* table scans (primary key scan_id)
  pass_types,          \* table pass_types
  device_state,        \* table device_state
  settings,            \* table settings: [device_id, json_config]
  broadcast_queue,     \* table broadcast_queue, in created_at order
  tasks,               \* async functions in progress: slot -> frame
  calls,               \* handleScannedQRCode calls made so far
  returns,             \* what each finished handleScannedQRCode call returned
  acksSent,            \* the sendAck calls, with the outcome of the send
  deliveries           \* the datagrams the 'message' listener was called with

envVars == <<now, faulty>>
memVars == <<db, socket, deviceId, sequenceNumber, localState, jsonConfigState,
             knownDevices, pendingAcks, receivedMessageIds, intervals>>
storeVars == <<scans, pass_types, device_state, settings, broadcast_queue>>
histVars == <<calls, returns, acksSent, deliveries>>
vars == <<envVars, net, uuidCounter, memVars, storeVars, tasks, histVars>>

Idle == [pc |-> "idle"]

\* Slots of the message handlers and of handleScannedQRCode; behind them one
\* slot each for initializeP2P and for the callbacks of two intervals.
Slots == 1..MaxTasks

InitSlot == MaxTasks + 1

SyncSlot == MaxTasks + 2

AckRetrySlot == MaxTasks + 3

ReconSlot == MaxTasks + 4

QueueSlot == MaxTasks + 5

\* setInterval does not wait for an async callback: a second callback of
\* the ACK retry interval may run while the first awaits its send
OverlapSlot == MaxTasks + 6

RetrySlots == {AckRetrySlot, OverlapSlot}

\* likewise a second callback of the broadcast queue interval
QueueOverlapSlot == MaxTasks + 7

QueueSlots == {QueueSlot, QueueOverlapSlot}

HeartbeatSlot == MaxTasks + 8

AllSlots == 1..(MaxTasks + 8)

HasFreeSlot(d) == \E s \in Slots : tasks[d][s] = Idle

FreeSlot(d) == CHOOSE s \in Slots : tasks[d][s] = Idle /\ \A r \in Slots : r < s => tasks[d][r] # Idle

\* The outcomes of an awaited store operation or socket.send.
Outcomes == IF faulty THEN {TRUE, FALSE} ELSE {TRUE}

\* uuidv4(): a value no earlier call returned
uuidv4 == Uuid(uuidCounter + 1)

AllIntervals == {"sync", "queue", "heartbeat", "ackRetry", "reconciliation"}

(***************************************************************************)
(* storage.ts                                                              *)
(***************************************************************************)
\* a write that reports success and stores nothing
InsertScansLost(table, events) == table

\* INSERT OR REPLACE INTO scans
InsertScans(table, events) ==
  {r \in table : \A e \in events : e.scanId # r.scanId} \cup events

\* SELECT ... FROM scans WHERE qr_code = ? AND date = ? ORDER BY timestamp ASC.
\* Rows of equal timestamp come in the order SQLite finds them: by scan_id.
RowBefore(a, b) ==
  a.timestamp < b.timestamp \/ (a.timestamp = b.timestamp /\ UuidLess(a.scanId, b.scanId))

RECURSIVE OrderRows(_)
OrderRows(rows) ==
  IF rows = {} THEN <<>>
  ELSE LET first == CHOOSE r \in rows : \A q \in rows : q = r \/ RowBefore(r, q)
       IN <<first>> \o OrderRows(rows \ {first})

getScansForQROnDate(table, qrCode, date) ==
  OrderRows({r \in table : r.qrCode = qrCode /\ r.date = date})

getScansForQR(table, qrCode) == OrderRows({r \in table : r.qrCode = qrCode})

\* loadState(QR_CODES)
loadState(table, types) ==
  [c \in QR_CODES |->
     [type |-> IF c \in DOMAIN types THEN types[c] ELSE TypeOfCode(c),
      scans |-> getScansForQR(table, c)]]

(***************************************************************************)
(* validateScan (index.ts).  The part before the store read decides        *)
(* "Unknown QR code"; this is the part after it.                           *)
(***************************************************************************)
\* the filter of the other variant of index.ts: Date.now() - 5 * 60 * 1000
RecentFiveMinutes(todayScans, t) ==
  SelectSeq(todayScans, LAMBDA scan : scan.timestamp > t - 5 * 60 * 1000)

Recent(todayScans, t) ==
  SelectSeq(todayScans, LAMBDA scan : scan.timestamp > t - COOLDOWN_MS)

\* validateScan with the cooldown test ahead of the one-use test
validateScanCooldownFirst(configEntry, todayScans, t) ==
  IF Len(SelectSeq(todayScans, LAMBDA scan : scan.timestamp > t - COOLDOWN_MS)) > 0
    THEN [allowed |-> FALSE, reason |-> "Already scanned within the last 30 seconds",
          todayScansCount |-> Len(todayScans)]
  ELSE IF configEntry.type = "one-use" /\ Len(todayScans) > 0
    THEN [allowed |-> FALSE, reason |-> "One-use pass already used today",
          todayScansCount |-> Len(todayScans)]
  ELSE [allowed |-> TRUE, reason |-> "", todayScansCount |-> Len(todayScans)]

validateScan(configEntry, todayScans, t) ==
  IF configEntry.type = "one-use" /\ Len(todayScans) > 0
    THEN [allowed |-> FALSE, reason |-> "One-use pass already used today",
          todayScansCount |-> Len(todayScans)]
  ELSE IF Len(Recent(todayScans, t)) > 0
    THEN [allowed |-> FALSE, reason |-> "Already scanned within the last 30 seconds",
          todayScansCount |-> Len(todayScans)]
  ELSE [allowed |-> TRUE, reason |-> "", todayScansCount |-> Len(todayScans)]

Unknown == [allowed |-> FALSE, reason |-> "Unknown QR code", todayScansCount |-> -1]

Failed == [allowed |-> FALSE, reason |-> "Failed to process scan. Please try again.",
           todayScansCount |-> -1]

(***************************************************************************)
(* state.ts: replica and projection                                        *)
(***************************************************************************)
\* if (!localState[qrCode]) localState[qrCode] = { type, scans: [] }
WithEntry(ls, qrCode) ==
  IF qrCode \in DOMAIN ls THEN ls
  ELSE [c \in DOMAIN ls \cup {qrCode} |->
          IF c = qrCode THEN [type |-> TypeOfCode(qrCode), scans |-> <<>>] ELSE ls[c]]

\* addScanEvent: push and sort
PushLocal(ls, event) ==
  LET w == WithEntry(ls, event.qrCode)
  IN [w EXCEPT ![event.qrCode].scans = sortScans(Append(@, event))]

\* updateJSONConfigWithScan, the in-memory part
UpdateJSONConfig(cfg, qrCode, date) ==
  IF qrCode \notin DOMAIN cfg THEN cfg
  ELSE [cfg EXCEPT ![qrCode] =
          [@ EXCEPT !.days = @ \cup {date},
                    !.count = IF cfg[qrCode].type = "infinite" THEN @ + 1 ELSE @]]

\* mergeDeltaScans, the loop over incomingScans: <<localState, newScans>>
RECURSIVE MergeLoop(_, _, _)
MergeLoop(ls, incomingScans, newScans) ==
  IF incomingScans = <<>> THEN <<ls, newScans>>
  ELSE LET incomingScan == Head(incomingScans)
           w == WithEntry(ls, incomingScan.qrCode)
           exists == \E scan \in SeqToSet(w[incomingScan.qrCode].scans) :
                        scan.scanId = incomingScan.scanId
       IN IF ~exists
            THEN MergeLoop([w EXCEPT ![incomingScan.qrCode].scans = Append(@, incomingScan)],
                           Tail(incomingScans), Append(newScans, incomingScan))
            ELSE MergeLoop(w, Tail(incomingScans), newScans)

\* a merge that takes nothing over
MergeMemoryNone(ls, incomingScans) == <<ls, <<>>>>

\* a merge without the exists check: every incoming scan is pushed
MergeMemoryAll(ls, incomingScans) ==
  LET codes == DOMAIN ls \cup {incomingScans[i].qrCode : i \in 1..Len(incomingScans)}
  IN <<[c \in codes |->
          [type |-> IF c \in DOMAIN ls THEN ls[c].type ELSE TypeOfCode(c),
           scans |-> sortScans((IF c \in DOMAIN ls THEN ls[c].scans ELSE <<>>)
                               \o SelectSeq(incomingScans, LAMBDA e : e.qrCode = c))]],
       incomingScans>>

\* mergeDeltaScans up to the store write: every code's scans are sorted again
MergeMemory(ls, incomingScans) ==
  IF incomingScans = <<>> THEN <<ls, <<>>>>
  ELSE LET m == MergeLoop(ls, incomingScans, <<>>)
       IN <<[c \in DOMAIN m[1] |-> [m[1][c] EXCEPT !.scans = sortScans(@)]], m[2]>>

\* mergeFullState: the scans of every code of peerState, in key order
RECURSIVE Flatten(_, _)
Flatten(peerState, codes) ==
  IF codes = <<>> THEN <<>>
  ELSE peerState[Head(codes)].scans \o Flatten(peerState, Tail(codes))

\* for (const qrCode in peerState): the keys in the order of the object.
\* Scans of different codes go to different arrays, so one fixed order of
\* the keys stands for all.
KeyOrder(S) == SetToSeq(S)

(***************************************************************************)
(* Datagrams.  A unicast goes to the device that holds the address, a      *)
(* broadcast to every device, the sender included; a device whose socket   *)
(* is not bound receives nothing.                                          *)
(***************************************************************************)
DeviceOfIp(ip) == CHOOSE d \in Devices : IpOf(d) = ip

Unicast(d, ip, msg) ==
  IF socket[DeviceOfIp(ip)]
    THEN {[to |-> DeviceOfIp(ip), from |-> IpOf(d), msg |-> msg]}
    ELSE {}

Broadcast(d, msg) ==
  {[to |-> r, from |-> IpOf(d), msg |-> msg] : r \in {x \in Devices : socket[x]}}

Room(dgs) == Cardinality(net \cup dgs) <= MaxNet

NetPut(dgs) == IF Room(dgs) THEN net \cup dgs ELSE net

\* socket.send has called back: without an error the datagrams are in
\* flight.  A network that loses nothing holds the sender until there is
\* room; the other one drops what finds it full.
Sent(dgs, ok) ==
  IF ok THEN (faulty \/ Room(dgs)) /\ net' = NetPut(dgs) ELSE UNCHANGED net

\* socket.send calls back without an error only on a bound socket
SendOutcomes(d) == IF socket[d] THEN Outcomes ELSE {FALSE}

\* sequenceNumber++.  The counter is exact up to MaxSeq; MaxSeq stands for
\* every larger value (nothing reads the counter but the messages).
NextSeq(n) == IF n < MaxSeq THEN n + 1 ELSE n

\* knownDevices.values() with an ipAddress, in Map order
PeersWithIp(d) ==
  SetToSeq({p \in DOMAIN knownDevices[d] : knownDevices[d][p].ipAddress # <<>>})

\* the addresses of the DeviceInfo objects of such an array
IpsOf(d, peers) == [p \in SeqToSet(peers) |-> knownDevices[d][p].ipAddress[1]]

Finish(d, s) == tasks' = [tasks EXCEPT ![d][s] = Idle]

Goto(d, s, frame) == tasks' = [tasks EXCEPT ![d][s] = frame]

\* pendingAcks.set(key, rec)
MapSet(map, key, rec) ==
  [k \in DOMAIN map \cup {key} |-> IF k = key THEN rec ELSE map[k]]

\* a delete of every key of the message, whoever the peer
MapDeleteMessage(map, key) == [k \in {x \in DOMAIN map : x[1] # key[1]} |-> map[k]]

\* map.delete(key)
MapDelete(map, key) == [k \in DOMAIN map \ {key} |-> map[k]]

\* INSERT INTO broadcast_queue: the new row.  Its key is one that no row of
\* the table has; a key is only used to find the row again.
QueueRow(queue, message) ==
  [id |-> CHOOSE k \in 1..(Len(queue) + 1) : \A i \in 1..Len(queue) : queue[i].id # k,
   message |-> message, attempts |-> 0]

(***************************************************************************)
(* handleScannedQRCode (index.ts) with validateScan, addScanEvent,         *)
(* updateJSONConfigWithScan, broadcastDelta and sendToAllPeersWithAck      *)
(* (state.ts).                                                             *)
(***************************************************************************)
Return(f, result) ==
  returns' = returns \cup
    {[dev |-> f.dev, call |-> f.call, qrCode |-> f.qrCode, result |-> result,
      validation |-> f.validation, at |-> f.at, todayScans |-> f.todayScans,
      event |-> f.event, targets |-> f.targets, attempted |-> f.attempted,
      broadcast |-> f.broadcast, today |-> f.today, after |-> f.after,
      message |-> f.message]}

ScanPcs == {"scan_read", "scan_save", "scan_config", "scan_bcast", "scan_enqueue",
            "scan_unicast"}

\* validateScan of the variant that looks the code up with getEntry:
\* localState has an entry for it
hasEntry(d, qrCode) == qrCode \in DOMAIN localState[d]

\* validateScan: configEntry = getJSONConfigState()[qrCode] is there
hasConfigEntry(d, qrCode) == qrCode \in DOMAIN jsonConfigState[d]

\* validateScan up to the store read
ScanBegin(d, qrCode) ==
  /\ HasFreeSlot(d)
  /\ calls' = calls + 1
  /\ LET f == [pc |-> "scan_read", dev |-> d, call |-> calls + 1, qrCode |-> qrCode,
               validation |-> Unknown, at |-> now, todayScans |-> <<>>,
               event |-> <<>>, targets |-> {}, attempted |-> {}, broadcast |-> FALSE,
               today |-> getTodayKey(now), after |-> {r.call : r \in returns},
               message |-> <<>>]
     IN IF ~hasConfigEntry(d, qrCode)
          THEN Return(f, Unknown) /\ UNCHANGED tasks
          ELSE /\ db[d]
               /\ Goto(d, FreeSlot(d), f)
               /\ UNCHANGED returns
  /\ UNCHANGED <<envVars, net, uuidCounter, memVars, storeVars, acksSent, deliveries>>

\* Storage.getScansForQROnDate resolves, with [] when the query failed;
\* validateScan decides; on allow addScanEvent pushes the event and starts
\* Storage.saveScanEvent
ScanRead(d, s) ==
  LET f == tasks[d][s] IN
  /\ f.pc = "scan_read"
  /\ \E ok \in Outcomes :
     LET todayScans == IF ok THEN getScansForQROnDate(scans[d], f.qrCode, f.today)
                       ELSE <<>>
         validation == validateScan(jsonConfigState[d][f.qrCode], todayScans, now)
         event == [scanId |-> uuidv4, qrCode |-> f.qrCode, timestamp |-> now,
                   deviceId |-> deviceId[d], date |-> getTodayKey(now)]
         g == [f EXCEPT !.at = now, !.todayScans = todayScans,
                        !.validation = validation]
     IN IF ~validation.allowed
          THEN /\ Return(g, validation)
               /\ Finish(d, s)
               /\ UNCHANGED <<uuidCounter, localState>>
          ELSE /\ uuidCounter' = uuidCounter + 1
               /\ localState' = [localState EXCEPT ![d] = PushLocal(@, event)]
               /\ Goto(d, s, [g EXCEPT !.pc = "scan_save", !.event = <<event>>])
               /\ UNCHANGED returns
  /\ UNCHANGED <<envVars, net, db, socket, deviceId, sequenceNumber, jsonConfigState,
                 knownDevices, pendingAcks, receivedMessageIds, intervals, storeVars,
                 calls, acksSent, deliveries>>

\* Storage.saveScanEvent resolves or rejects; updateJSONConfigWithScan
\* changes the entry and starts Storage.saveJSONConfig
ScanSave(d, s) ==
  LET f == tasks[d][s] IN
  /\ f.pc = "scan_save"
  /\ \E ok \in Outcomes :
       IF ok
         THEN /\ scans' = [scans EXCEPT ![d] = InsertScans(@, {f.event[1]})]
              /\ jsonConfigState' = [jsonConfigState EXCEPT ![d] =
                                       UpdateJSONConfig(@, f.qrCode, f.event[1].date)]
              /\ Goto(d, s, [f EXCEPT !.pc = "scan_config"]
                              @@ [config |-> jsonConfigState'[d]])
              /\ UNCHANGED returns
         ELSE /\ Return(f, Failed)
              /\ Finish(d, s)
              /\ UNCHANGED <<scans, jsonConfigState>>
  /\ UNCHANGED <<envVars, net, uuidCounter, db, socket, deviceId, sequenceNumber,
                 localState, knownDevices, pendingAcks, receivedMessageIds, intervals,
                 pass_types, device_state, settings, broadcast_queue, calls, acksSent, deliveries>>

\* Storage.saveJSONConfig resolves or rejects; broadcastDelta builds the
\* delta and sendToAllPeersWithAck starts the first send
ScanConfig(d, s) ==
  LET f == tasks[d][s] IN
  /\ f.pc = "scan_config"
  /\ \E ok \in Outcomes :
       IF ok
         THEN LET message == [type |-> "delta", messageId |-> uuidv4,
                              deltas |-> f.event,
                              sequenceNum |-> NextSeq(sequenceNumber[d]),
                              deviceId |-> deviceId[d]]
                  peers == PeersWithIp(d)
              IN /\ settings' = [settings EXCEPT ![d].json_config = <<f.config>>]
                 /\ sequenceNumber' = [sequenceNumber EXCEPT ![d] = NextSeq(@)]
                 /\ uuidCounter' = uuidCounter + 1
                 /\ Goto(d, s, [f EXCEPT !.pc = IF peers = <<>> THEN "scan_bcast"
                                                ELSE "scan_unicast",
                                         !.targets = SeqToSet(peers),
                                         !.message = <<message>>]
                                 @@ [todo |-> peers, peerIps |-> IpsOf(d, peers)])
                 /\ UNCHANGED returns
         ELSE /\ Return(f, Failed)
              /\ Finish(d, s)
              /\ UNCHANGED <<settings, sequenceNumber, uuidCounter>>
  /\ UNCHANGED <<envVars, net, db, socket, deviceId, localState, jsonConfigState,
                 knownDevices, pendingAcks, receivedMessageIds, intervals,
                 scans, pass_types, device_state, broadcast_queue, calls, acksSent, deliveries>>

\* sendToAllPeersWithAck without a peer: sendDelta(broadcast) calls back
ScanBcast(d, s) ==
  LET f == tasks[d][s] IN
  /\ f.pc = "scan_bcast"
  /\ \E ok \in SendOutcomes(d) :
       IF ok
         THEN /\ Sent(Broadcast(d, f.message[1]), TRUE)
              /\ Return([f EXCEPT !.broadcast = TRUE], f.validation)
              /\ Finish(d, s)
         ELSE /\ Goto(d, s, [f EXCEPT !.pc = "scan_enqueue", !.broadcast = TRUE])
              /\ UNCHANGED <<net, returns>>
  /\ UNCHANGED <<envVars, uuidCounter, memVars, storeVars, calls, acksSent, deliveries>>

\* Storage.enqueueBroadcast of the delta whose broadcast failed
ScanEnqueue(d, s) ==
  LET f == tasks[d][s] IN
  /\ f.pc = "scan_enqueue"
  /\ \E ok \in Outcomes :
       IF ok /\ Len(broadcast_queue[d]) < MaxQueue
         THEN /\ broadcast_queue' = [broadcast_queue EXCEPT ![d] =
                                       Append(@, QueueRow(@, f.message[1]))]
              /\ Return(f, f.validation)
         ELSE /\ Return(f, Failed)
              /\ UNCHANGED broadcast_queue
  /\ Finish(d, s)
  /\ UNCHANGED <<envVars, net, uuidCounter, memVars, scans, pass_types, device_state,
                 settings, calls, acksSent, deliveries>>

\* sendToAllPeersWithAck, one peer of the loop: sendDeltaToPeer calls back;
\* on success the message is tracked for its ACK
ScanUnicast(d, s) ==
  LET f == tasks[d][s]
      peerId == Head(f.todo)
  IN
  /\ f.pc = "scan_unicast"
  /\ \E ok \in SendOutcomes(d) :
       IF ok
         THEN /\ Sent(Unicast(d, f.peerIps[peerId], f.message[1]), TRUE)
              /\ pendingAcks' = [pendingAcks EXCEPT ![d] =
                   MapSet(@, <<f.message[1].messageId, peerId>>,
                          [message |-> f.message[1], peerIp |-> f.peerIps[peerId],
                           timestamp |-> now, attempts |-> 1, peerId |-> peerId])]
         ELSE UNCHANGED <<net, pendingAcks>>
  /\ LET g == [f EXCEPT !.todo = Tail(@), !.attempted = @ \cup {peerId}]
     IN IF g.todo = <<>>
          THEN Return(g, f.validation) /\ Finish(d, s)
          ELSE Goto(d, s, g) /\ UNCHANGED returns
  /\ UNCHANGED <<envVars, uuidCounter, db, socket, deviceId, sequenceNumber, localState,
                 jsonConfigState, knownDevices, receivedMessageIds, intervals, storeVars,
                 calls, acksSent, deliveries>>

(***************************************************************************)
(* serviceEvents.on("message") (state.ts), from the datagram to the end of *)
(* the handler.  An exception anywhere ends the handler: it is caught and  *)
(* logged.                                                                 *)
(***************************************************************************)
HasMessageId(message) == "messageId" \in DOMAIN message

\* JSON.parse(messageStr) returns and message.deviceId is a string: a text
\* that is not such a message throws into the catch of the listener
Parses(message) == "deviceId" \in DOMAIN message

\* the cases of switch (message.type)
MessageTypes == {"delta", "full-state", "state-request", "ack", "heartbeat", "state-hash"}

\* a listener that takes its own datagrams
isFromSelfNever(d, message) == FALSE

\* if (message.deviceId === deviceId) return
isFromSelf(d, message) == message.deviceId = deviceId[d]

\* a cache that knows no id
isMessageReceivedNever(d, messageId) == FALSE

isMessageReceived(d, messageId) == messageId \in SeqToSet(receivedMessageIds[d])

\* a cache that deletes the newest 100
markAndDropNewest(ids, messageId) ==
  LET added == IF messageId \in SeqToSet(ids) THEN ids ELSE Append(ids, messageId)
  IN IF Len(added) > MAX_RECEIVED_IDS
       THEN SubSeq(added, 1, Len(added) - RECEIVED_EVICT)
       ELSE added

\* Set.add; beyond MAX_RECEIVED_IDS the oldest 100 are deleted
markMessageAsReceived(ids, messageId) ==
  LET added == IF messageId \in SeqToSet(ids) THEN ids ELSE Append(ids, messageId)
  IN IF Len(added) > MAX_RECEIVED_IDS
       THEN SubSeq(added, RECEIVED_EVICT + 1, Len(added))
       ELSE added

\* existingDevice?.field
Existing(d, id, field) ==
  IF id \in DOMAIN knownDevices[d] THEN knownDevices[d][id][field] ELSE <<>>

\* the DeviceInfo built from a message and rinfo.address
DeviceInfoOf(d, message, address) ==
  [deviceId |-> message.deviceId,
   lastSequence |-> message.sequenceNum,
   lastSeen |-> now,
   lastHeartbeat |-> IF message.type = "heartbeat" THEN <<now>>
                     ELSE Existing(d, message.deviceId, "lastHeartbeat"),
   ipAddress |-> <<address>>,
   stateHash |-> IF "stateHash" \in DOMAIN message THEN <<message.stateHash>>
                 ELSE Existing(d, message.deviceId, "stateHash"),
   connectionState |-> <<"connected">>]

\* the row updateDeviceState writes, as getAllDeviceStates reads it back
StoredInfo(deviceInfo) ==
  [deviceInfo EXCEPT !.lastHeartbeat = <<>>, !.stateHash = <<>>, !.connectionState = <<>>]

\* requestFullStateFromPeers: the message
StateRequest(d) ==
  [type |-> "state-request", sequenceNum |-> NextSeq(sequenceNumber[d]),
   deviceId |-> deviceId[d]]

\* sendAck: the message
AckMessage(d, messageId) ==
  [type |-> "ack", ackMessageId |-> messageId,
   sequenceNum |-> NextSeq(sequenceNumber[d]), deviceId |-> deviceId[d]]

\* a sender that is never taken for new
isNewPeerNever(d, message) == FALSE

\* const isNewPeer = !knownDevices.has(message.deviceId)
isNewPeer(d, message) == message.deviceId \notin DOMAIN knownDevices[d]

\* The datagram reaches the 'message' listener: parse, drop an own or an
\* already received message, mark it received, put the sender into
\* knownDevices, start Storage.updateDeviceState.
Deliver(d, dg) ==
  LET message == dg.msg IN
  /\ dg \in net
  /\ dg.to = d
  /\ socket[d]
  /\ HasFreeSlot(d)
  /\ net' = net \ {dg}
  /\ IF \/ ~Parses(message)
        \/ isFromSelf(d, message)
        \/ (HasMessageId(message) /\ isMessageReceived(d, message.messageId))
       THEN UNCHANGED <<receivedMessageIds, knownDevices, tasks>>
       ELSE /\ receivedMessageIds' =
                 IF HasMessageId(message)
                   THEN [receivedMessageIds EXCEPT ![d] =
                           markMessageAsReceived(@, message.messageId)]
                   ELSE receivedMessageIds
            /\ knownDevices' = [knownDevices EXCEPT ![d] =
                 MapSet(@, message.deviceId, DeviceInfoOf(d, message, dg.from))]
            /\ Goto(d, FreeSlot(d),
                    [pc |-> "h_upsert", dev |-> d, message |-> message, address |-> dg.from,
                     isNewPeer |-> isNewPeer(d, message),
                     deviceInfo |-> DeviceInfoOf(d, message, dg.from)])
  /\ deliveries' = [deliveries EXCEPT ![d] = @ \cup
       {[message |-> message, address |-> dg.from,
         duplicate |-> /\ HasMessageId(message)
                       /\ message.messageId \in SeqToSet(receivedMessageIds[d])]}]
  /\ UNCHANGED <<envVars, uuidCounter, db, socket, deviceId, sequenceNumber, localState,
                 jsonConfigState, pendingAcks, intervals, storeVars, calls, returns,
                 acksSent>>

\* A datagram in flight never arrives.
Drop(dg) ==
  /\ dg \in net
  /\ net' = net \ {dg}
  /\ UNCHANGED <<envVars, uuidCounter, memVars, storeVars, tasks, histVars>>

\* The network loses a datagram.
Lose(dg) == faulty /\ Drop(dg)

\* after the merge: case 'delta' goes on to sendAck, 'full-state' is done
AfterMerge(d, s, f) ==
  IF f.message.type = "delta" /\ HasMessageId(f.message)
    THEN /\ sequenceNumber' = [sequenceNumber EXCEPT ![d] = NextSeq(@)]
         /\ Goto(d, s, [pc |-> "h_ack", dev |-> d, message |-> f.message,
                        address |-> f.address,
                        ack |-> AckMessage(d, f.message.messageId)])
    ELSE /\ Finish(d, s)
         /\ UNCHANGED sequenceNumber

\* a full state that carries the passes without their scans
broadcastPasses(d, s) ==
  LET message == [type |-> "full-state",
                  fullState |-> [c \in DOMAIN localState[d] |->
                                   [localState[d][c] EXCEPT !.scans = <<>>]],
                  sequenceNum |-> NextSeq(sequenceNumber[d]), deviceId |-> deviceId[d]]
      todo == PeersWithIp(d)
  IN /\ sequenceNumber' = [sequenceNumber EXCEPT ![d] = NextSeq(@)]
     /\ IF todo = <<>>
          THEN Finish(d, s)
          ELSE Goto(d, s, [pc |-> "fs_send", dev |-> d, message |-> message,
                           todo |-> todo, peerIps |-> IpsOf(d, todo)])

\* broadcastFullState with sendToAllPeers up to its first send, in slot s
broadcastFullState(d, s) ==
  LET message == [type |-> "full-state", fullState |-> localState[d],
                  sequenceNum |-> NextSeq(sequenceNumber[d]), deviceId |-> deviceId[d]]
      todo == PeersWithIp(d)
  IN /\ sequenceNumber' = [sequenceNumber EXCEPT ![d] = NextSeq(@)]
     /\ IF DOMAIN knownDevices[d] = {}
          THEN Goto(d, s, [pc |-> "fs_bcast", dev |-> d, message |-> message])
        ELSE IF todo = <<>>
          THEN Finish(d, s)
        ELSE Goto(d, s, [pc |-> "fs_send", dev |-> d, message |-> message,
                         todo |-> todo, peerIps |-> IpsOf(d, todo)])

\* switch (message.type) up to the next await
Dispatch(d, s, f) ==
  LET message == f.message IN
  CASE message.type \in {"delta", "full-state"} ->
         LET incoming == IF message.type = "delta" THEN message.deltas
                         ELSE Flatten(message.fullState, KeyOrder(DOMAIN message.fullState))
             m == MergeMemory(localState[d], incoming)
         IN /\ localState' = [localState EXCEPT ![d] = m[1]]
            /\ UNCHANGED <<knownDevices, pendingAcks>>
            /\ IF m[2] # <<>>
                 THEN /\ Goto(d, s, [pc |-> "h_save", dev |-> d, message |-> message,
                                     address |-> f.address, newScans |-> m[2]])
                      /\ UNCHANGED sequenceNumber
                 ELSE AfterMerge(d, s, f)
    [] message.type = "state-request" ->
         /\ broadcastFullState(d, s)
         /\ UNCHANGED <<localState, knownDevices, pendingAcks>>
    [] message.type = "ack" ->
         /\ pendingAcks' = [pendingAcks EXCEPT ![d] =
              MapDelete(@, <<message.ackMessageId, message.deviceId>>)]
         /\ Finish(d, s)
         /\ UNCHANGED <<localState, knownDevices, sequenceNumber>>
    [] message.type = "heartbeat" ->
         /\ Finish(d, s)
         /\ UNCHANGED <<localState, knownDevices, pendingAcks, sequenceNumber>>
    [] message.type = "state-hash" ->
         IF message.stateHash # calculateStateHash(localState[d])
           THEN /\ sequenceNumber' = [sequenceNumber EXCEPT ![d] = NextSeq(@)]
                /\ Goto(d, s, [pc |-> "h_request", dev |-> d, message |-> message,
                               address |-> f.address, request |-> StateRequest(d),
                               dispatch |-> FALSE])
                /\ UNCHANGED <<localState, knownDevices, pendingAcks>>
           ELSE /\ knownDevices' = [knownDevices EXCEPT ![d] =
                     IF message.deviceId \in DOMAIN @
                       THEN [@ EXCEPT ![message.deviceId].connectionState = <<"synced">>]
                       ELSE @]
                /\ Finish(d, s)
                /\ UNCHANGED <<localState, pendingAcks, sequenceNumber>>
    [] OTHER ->
         /\ Finish(d, s)
         /\ UNCHANGED <<localState, knownDevices, pendingAcks, sequenceNumber>>

\* Storage.updateDeviceState resolves or rejects; a new peer is asked for
\* its state (requestFullStateFromPeers), otherwise the message is handled
HUpsert(d, s) ==
  LET f == tasks[d][s] IN
  /\ f.pc = "h_upsert"
  /\ \E ok \in Outcomes :
       IF ok
         THEN /\ device_state' = [device_state EXCEPT ![d] =
                   MapSet(@, f.deviceInfo.deviceId, StoredInfo(f.deviceInfo))]
              /\ IF f.isNewPeer
                   THEN /\ sequenceNumber' = [sequenceNumber EXCEPT ![d] = NextSeq(@)]
                        /\ Goto(d, s, [pc |-> "h_request", dev |-> d, message |-> f.message,
                                       address |-> f.address, request |-> StateRequest(d),
                                       dispatch |-> TRUE])
                        /\ UNCHANGED <<localState, knownDevices, pendingAcks>>
                   ELSE Dispatch(d, s, f)
         ELSE /\ Finish(d, s)
              /\ UNCHANGED <<device_state, sequenceNumber, localState, knownDevices,
                             pendingAcks>>
  /\ UNCHANGED <<envVars, net, uuidCounter, db, socket, deviceId, jsonConfigState,
                 receivedMessageIds, intervals, scans, pass_types, settings,
                 broadcast_queue, histVars>>

\* requestFullStateFromPeers: sendDelta(broadcast) calls back, an error is
\* logged; the handler goes on
HRequest(d, s) ==
  LET f == tasks[d][s] IN
  /\ f.pc = "h_request"
  /\ \E ok \in SendOutcomes(d) : Sent(Broadcast(d, f.request), ok)
  /\ IF f.dispatch
       THEN Dispatch(d, s, f)
       ELSE /\ Finish(d, s)
            /\ UNCHANGED <<localState, knownDevices, pendingAcks, sequenceNumber>>
  /\ UNCHANGED <<envVars, uuidCounter, db, socket, deviceId, jsonConfigState,
                 receivedMessageIds, intervals, storeVars, histVars>>

\* mergeDeltaScans, the loop over newScans: updateJSONConfigWithScan changes
\* the entry of the next scan whose code the config knows and starts
\* Storage.saveJSONConfig; behind the last scan the handler goes on
ConfigNext(d, s, f, rest) ==
  LET known == SelectSeq(rest, LAMBDA scan : scan.qrCode \in DOMAIN jsonConfigState[d]) IN
  IF known = <<>>
    THEN /\ AfterMerge(d, s, f)
         /\ UNCHANGED jsonConfigState
    ELSE /\ jsonConfigState' = [jsonConfigState EXCEPT ![d] =
              UpdateJSONConfig(@, Head(known).qrCode, Head(known).date)]
         /\ Goto(d, s, [pc |-> "h_config", dev |-> d, message |-> f.message,
                        address |-> f.address, rest |-> Tail(known),
                        config |-> jsonConfigState'[d]])
         /\ UNCHANGED sequenceNumber

\* Storage.saveScanEvents(newScans) resolves or rejects
HSave(d, s) ==
  LET f == tasks[d][s] IN
  /\ f.pc = "h_save"
  /\ \E ok \in Outcomes :
       IF ok
         THEN /\ scans' = [scans EXCEPT ![d] = InsertScans(@, SeqToSet(f.newScans))]
              /\ ConfigNext(d, s, f, f.newScans)
         ELSE /\ Finish(d, s)
              /\ UNCHANGED <<scans, jsonConfigState, sequenceNumber>>
  /\ UNCHANGED <<envVars, net, uuidCounter, db, socket, deviceId, localState,
                 knownDevices, pendingAcks, receivedMessageIds, intervals, pass_types,
                 device_state, settings, broadcast_queue, histVars>>

\* Storage.saveJSONConfig resolves or rejects
HConfig(d, s) ==
  LET f == tasks[d][s] IN
  /\ f.pc = "h_config"
  /\ \E ok \in Outcomes :
       IF ok
         THEN /\ settings' = [settings EXCEPT ![d].json_config = <<f.config>>]
              /\ ConfigNext(d, s, f, f.rest)
         ELSE /\ Finish(d, s)
              /\ UNCHANGED <<settings, jsonConfigState, sequenceNumber>>
  /\ UNCHANGED <<envVars, net, uuidCounter, db, socket, deviceId, localState,
                 knownDevices, pendingAcks, receivedMessageIds, intervals, scans,
                 pass_types, device_state, broadcast_queue, histVars>>

\* sendAck: sendDeltaToPeer calls back, an error is logged
HAck(d, s) ==
  LET f == tasks[d][s] IN
  /\ f.pc = "h_ack"
  /\ \E ok \in SendOutcomes(d) :
       /\ Sent(Unicast(d, f.address, f.ack), ok)
       /\ acksSent' = [acksSent EXCEPT ![d] =
            Append(@, [messageId |-> f.message.messageId, to |-> f.address, ok |-> ok])]
  /\ Finish(d, s)
  /\ UNCHANGED <<envVars, uuidCounter, memVars, storeVars, calls, returns, deliveries>>

\* Storage.enqueueBroadcast after a failed send: the row is added, or the
\* insert rejects
Enqueued(d, message, stored) ==
  IF stored /\ Len(broadcast_queue[d]) < MaxQueue
    THEN broadcast_queue' = [broadcast_queue EXCEPT ![d] =
           Append(@, QueueRow(@, message))]
    ELSE UNCHANGED broadcast_queue

\* sendToAllPeers, one peer of the loop: sendDeltaToPeer calls back; after
\* an error Storage.enqueueBroadcast, whose rejection ends the caller
FsSend(d, s) ==
  LET f == tasks[d][s]
      peerId == Head(f.todo)
  IN
  /\ f.pc = "fs_send"
  /\ \E ok \in SendOutcomes(d), stored \in Outcomes :
       /\ Sent(Unicast(d, f.peerIps[peerId], f.message), ok)
       /\ IF ok THEN UNCHANGED broadcast_queue ELSE Enqueued(d, f.message, stored)
       /\ IF (ok \/ (stored /\ Len(broadcast_queue[d]) < MaxQueue)) /\ Tail(f.todo) # <<>>
            THEN Goto(d, s, [f EXCEPT !.todo = Tail(@)])
            ELSE Finish(d, s)
  /\ UNCHANGED <<envVars, uuidCounter, memVars, scans, pass_types, device_state,
                 settings, histVars>>

\* sendToAllPeers without a peer: sendDelta(broadcast) calls back; after an
\* error Storage.enqueueBroadcast
FsBcast(d, s) ==
  LET f == tasks[d][s] IN
  /\ f.pc = "fs_bcast"
  /\ \E ok \in SendOutcomes(d), stored \in Outcomes :
       /\ Sent(Broadcast(d, f.message), ok)
       /\ IF ok THEN UNCHANGED broadcast_queue ELSE Enqueued(d, f.message, stored)
  /\ Finish(d, s)
  /\ UNCHANGED <<envVars, uuidCounter, memVars, scans, pass_types, device_state,
                 settings, histVars>>

(***************************************************************************)
(* Intervals.  A callback runs in the slot of its interval; the next one   *)
(* starts when that slot is free.  The ACK retry interval has two slots.   *)
(***************************************************************************)
\* startPeriodicSync: the interval fires
SyncTimer(d) ==
  /\ "sync" \in intervals[d]
  /\ tasks[d][SyncSlot] = Idle
  /\ broadcastFullState(d, SyncSlot)
  /\ UNCHANGED <<envVars, net, uuidCounter, db, socket, deviceId, localState,
                 jsonConfigState, knownDevices, pendingAcks, receivedMessageIds,
                 intervals, storeVars, histVars>>

\* startHeartbeat: the interval fires; the heartbeat with the hash of the
\* replica goes to every peer that has an address, one send after the other
HeartbeatTimer(d) ==
  LET heartbeatMessage ==
        [type |-> "heartbeat", sequenceNum |-> NextSeq(sequenceNumber[d]),
         deviceId |-> deviceId[d], stateHash |-> calculateStateHash(localState[d])]
      peers == PeersWithIp(d)
  IN
  /\ "heartbeat" \in intervals[d]
  /\ tasks[d][HeartbeatSlot] = Idle
  /\ sequenceNumber' = [sequenceNumber EXCEPT ![d] = NextSeq(@)]
  /\ IF peers = <<>>
       THEN UNCHANGED tasks
       ELSE Goto(d, HeartbeatSlot, [pc |-> "hb_send", dev |-> d, message |-> heartbeatMessage,
                                    todo |-> peers, peerIps |-> IpsOf(d, peers)])
  /\ UNCHANGED <<envVars, net, uuidCounter, db, socket, deviceId, localState,
                 jsonConfigState, knownDevices, pendingAcks, receivedMessageIds,
                 intervals, storeVars, histVars>>

\* the loop of the heartbeat, one peer: sendDeltaToPeer calls back, an error
\* is logged
HeartbeatSend(d, s) ==
  LET f == tasks[d][s] IN
  /\ f.pc = "hb_send"
  /\ \E ok \in SendOutcomes(d) :
       Sent(Unicast(d, f.peerIps[Head(f.todo)], f.message), ok)
  /\ IF Tail(f.todo) # <<>>
       THEN Goto(d, s, [f EXCEPT !.todo = Tail(@)])
       ELSE Finish(d, s)
  /\ UNCHANGED <<envVars, uuidCounter, memVars, storeVars, histVars>>

\* the keys of pendingAcks that have waited longer than ACK_TIMEOUT
Due(d) == {k \in DOMAIN pendingAcks[d] : now - pendingAcks[d][k].timestamp > ACK_TIMEOUT}

\* startAckRetryProcessor: the interval fires and finds entries that are
\* due; those at MAX_ATTEMPTS are deleted, the others are sent again
AckRetryTimer(d) ==
  LET exhausted == {k \in Due(d) : pendingAcks[d][k].attempts >= MAX_ATTEMPTS}
      toRetry == SetToSeq(Due(d) \ exhausted)
  IN
  /\ "ackRetry" \in intervals[d]
  /\ \E s \in RetrySlots : tasks[d][s] = Idle
  /\ Due(d) # {}
  /\ pendingAcks' = [pendingAcks EXCEPT ![d] = [k \in DOMAIN @ \ exhausted |-> @[k]]]
  /\ IF toRetry = <<>>
       THEN UNCHANGED tasks
       ELSE Goto(d, IF tasks[d][AckRetrySlot] = Idle THEN AckRetrySlot ELSE OverlapSlot,
                 [pc |-> "retry_send", dev |-> d, at |-> now, todo |-> toRetry,
                  pending |-> [k \in SeqToSet(toRetry) |-> pendingAcks[d][k]]])
  /\ UNCHANGED <<envVars, net, uuidCounter, db, socket, deviceId, sequenceNumber,
                 localState, jsonConfigState, knownDevices, receivedMessageIds,
                 intervals, storeVars, histVars>>

\* the retry loop, one entry: sendDeltaToPeer calls back; on success
\* pending.attempts++ and pending.timestamp = now (of the callback's begin)
\* change the object, which an overlapping callback holds as well, and the
\* entry is set again
RetrySend(d, s) ==
  LET f == tasks[d][s]
      ackKey == Head(f.todo)
      pending == f.pending[ackKey]
      changed == [pending EXCEPT !.attempts = @ + 1, !.timestamp = f.at]
      Other(x, ok) ==
        IF ok /\ x \in RetrySlots /\ tasks[d][x].pc = "retry_send"
              /\ ackKey \in DOMAIN tasks[d][x].pending
          THEN [tasks[d][x] EXCEPT !.pending[ackKey] = changed]
          ELSE tasks[d][x]
  IN
  /\ f.pc = "retry_send"
  /\ \E ok \in SendOutcomes(d) :
       /\ Sent(Unicast(d, pending.peerIp, pending.message), ok)
       /\ IF ok
            THEN pendingAcks' = [pendingAcks EXCEPT ![d] = MapSet(@, ackKey, changed)]
            ELSE UNCHANGED pendingAcks
       /\ tasks' = [tasks EXCEPT ![d] =
            [x \in AllSlots |->
               IF x # s THEN Other(x, ok)
               ELSE IF Tail(f.todo) # <<>>
                 THEN [Other(x, ok) EXCEPT !.todo = Tail(@)]
               ELSE Idle]]
  /\ UNCHANGED <<envVars, uuidCounter, db, socket, deviceId, sequenceNumber, localState,
                 jsonConfigState, knownDevices, receivedMessageIds, intervals, storeVars,
                 histVars>>

\* the rest of the loop of processBroadcastQueue
QueueNext(d, s, f) ==
  IF Tail(f.todo) # <<>>
    THEN Goto(d, s, [pc |-> "q_send", dev |-> d, todo |-> Tail(f.todo)])
    ELSE Finish(d, s)

\* startBroadcastQueueProcessor: the interval fires, processBroadcastQueue
\* starts Storage.getPendingBroadcasts
QueueTimer(d) ==
  /\ "queue" \in intervals[d]
  /\ \E s \in QueueSlots : tasks[d][s] = Idle
  /\ Goto(d, IF tasks[d][QueueSlot] = Idle THEN QueueSlot ELSE QueueOverlapSlot,
          [pc |-> "q_read", dev |-> d])
  /\ UNCHANGED <<envVars, net, uuidCounter, memVars, storeVars, histVars>>

\* SELECT ... FROM broadcast_queue WHERE attempts < ? ORDER BY created_at
\* ASC LIMIT 10
getPendingBroadcasts(d, maxAttempts) ==
  LET rows == SelectSeq(broadcast_queue[d], LAMBDA row : row.attempts < maxAttempts)
  IN IF Len(rows) > QUEUE_LIMIT THEN SubSeq(rows, 1, QUEUE_LIMIT) ELSE rows

\* SELECT COUNT(*) FROM broadcast_queue WHERE attempts < 5; 0 when the
\* database is not open or the query failed
getPendingBroadcastCount(d, ok) ==
  IF ok /\ db[d]
    THEN Len(SelectSeq(broadcast_queue[d], LAMBDA row : row.attempts < MAX_QUEUE_ATTEMPTS))
    ELSE 0

\* Storage.getPendingBroadcasts resolves with the rows of fewer than
\* MAX_QUEUE_ATTEMPTS attempts, oldest first, or with [] when the query failed
QueueRead(d, s) ==
  LET f == tasks[d][s] IN
  /\ f.pc = "q_read"
  /\ \E ok \in Outcomes :
       LET pending == IF ok /\ db[d]
                        THEN getPendingBroadcasts(d, MAX_QUEUE_ATTEMPTS)
                        ELSE <<>>
       IN IF pending = <<>>
            THEN Finish(d, s)
            ELSE Goto(d, s, [pc |-> "q_send", dev |-> d, todo |-> pending])
  /\ UNCHANGED <<envVars, net, uuidCounter, memVars, storeVars, histVars>>

\* sendDelta(item.message) calls back: then Storage.removeBroadcast, after
\* an error Storage.updateBroadcastAttempt
QueueSend(d, s) ==
  LET f == tasks[d][s] IN
  /\ f.pc = "q_send"
  /\ \E ok \in SendOutcomes(d) :
       /\ Sent(Broadcast(d, Head(f.todo).message), ok)
       /\ Goto(d, s, [f EXCEPT !.pc = IF ok THEN "q_remove" ELSE "q_update"])
  /\ UNCHANGED <<envVars, uuidCounter, memVars, storeVars, histVars>>

\* Storage.removeBroadcast resolves, or rejects into the catch
QueueRemove(d, s) ==
  LET f == tasks[d][s] IN
  /\ f.pc = "q_remove"
  /\ \E ok \in Outcomes :
       IF ok
         THEN /\ broadcast_queue' = [broadcast_queue EXCEPT ![d] =
                   SelectSeq(@, LAMBDA row : row.id # Head(f.todo).id)]
              /\ QueueNext(d, s, f)
         ELSE /\ Goto(d, s, [f EXCEPT !.pc = "q_update"])
              /\ UNCHANGED broadcast_queue
  /\ UNCHANGED <<envVars, net, uuidCounter, memVars, scans, pass_types, device_state,
                 settings, histVars>>

\* Storage.updateBroadcastAttempt resolves, or rejects and ends the callback
QueueUpdate(d, s) ==
  LET f == tasks[d][s] IN
  /\ f.pc = "q_update"
  /\ \E ok \in Outcomes :
       IF ok
         THEN /\ broadcast_queue' = [broadcast_queue EXCEPT ![d] =
                   [i \in 1..Len(@) |-> IF @[i].id = Head(f.todo).id
                                          THEN [@[i] EXCEPT !.attempts = @ + 1] ELSE @[i]]]
              /\ QueueNext(d, s, f)
         ELSE /\ Finish(d, s)
              /\ UNCHANGED broadcast_queue
  /\ UNCHANGED <<envVars, net, uuidCounter, memVars, scans, pass_types, device_state,
                 settings, histVars>>

\* shutdownP2P: stopPeriodicSync and clearInterval of the heartbeat, the ACK
\* retry and the reconciliation interval
shutdownP2P(d) ==
  /\ intervals[d] = AllIntervals
  /\ intervals' = [intervals EXCEPT ![d] = @ \ {"sync", "heartbeat", "ackRetry",
                                                 "reconciliation"}]
  /\ UNCHANGED <<envVars, net, uuidCounter, db, socket, deviceId, sequenceNumber,
                 localState, jsonConfigState, knownDevices, pendingAcks,
                 receivedMessageIds, storeVars, tasks, histVars>>

\* a count of every record of knownDevices
getKnownDevicesCount(d) == Cardinality(DOMAIN knownDevices[d])

\* getConnectedDevicesCount: the records of knownDevices seen less than
\* PEER_TIMEOUT ago
getConnectedDevicesCount(d) ==
  Cardinality({k \in DOMAIN knownDevices[d] : now - knownDevices[d][k].lastSeen < PEER_TIMEOUT})

\* startStateReconciliation: the interval fires; the hash of the replica
\* goes to every peer that has an address, one send after the other
ReconTimer(d) ==
  LET message == [type |-> "state-hash", stateHash |-> calculateStateHash(localState[d]),
                  sequenceNum |-> NextSeq(sequenceNumber[d]), deviceId |-> deviceId[d]]
      todo == PeersWithIp(d)
  IN
  /\ "reconciliation" \in intervals[d]
  /\ tasks[d][ReconSlot] = Idle
  /\ sequenceNumber' = [sequenceNumber EXCEPT ![d] = NextSeq(@)]
  /\ IF todo = <<>>
       THEN UNCHANGED tasks
       ELSE Goto(d, ReconSlot, [pc |-> "recon_send", dev |-> d, message |-> message,
                                todo |-> todo, peerIps |-> IpsOf(d, todo)])
  /\ UNCHANGED <<envVars, net, uuidCounter, db, socket, deviceId, localState,
                 jsonConfigState, knownDevices, pendingAcks, receivedMessageIds,
                 intervals, storeVars, histVars>>

\* the loop of the reconciliation callback, one peer: sendDeltaToPeer calls
\* back, an error is logged
ReconSend(d, s) ==
  LET f == tasks[d][s] IN
  /\ f.pc = "recon_send"
  /\ \E ok \in SendOutcomes(d) : Sent(Unicast(d, f.peerIps[Head(f.todo)], f.message), ok)
  /\ IF Tail(f.todo) # <<>>
       THEN Goto(d, s, [f EXCEPT !.todo = Tail(@)])
       ELSE Finish(d, s)
  /\ UNCHANGED <<envVars, uuidCounter, memVars, storeVars, histVars>>

\* the steps of device d's message handlers and interval callbacks
HandlerStep(d) ==
  \/ \E dg \in net : Deliver(d, dg)
  \/ \E s \in AllSlots : HUpsert(d, s)
  \/ \E s \in AllSlots : HRequest(d, s)
  \/ \E s \in AllSlots : HSave(d, s)
  \/ \E s \in AllSlots : HConfig(d, s)
  \/ \E s \in AllSlots : FsSend(d, s)

(***************************************************************************)
(* initializeP2P (state.ts), await by await.  An exception ends it: it is  *)
(* logged and thrown on to the caller.                                     *)
(***************************************************************************)
\* rebuildJSONConfigFromScans: the initial entries, count and day flags
\* counted again from the scans of localState
RebuildJSONConfig(ls) ==
  [c \in DOMAIN INITIAL_QR_CONFIG |->
     LET list == IF c \in DOMAIN ls THEN ls[c].scans ELSE <<>> IN
     [type |-> INITIAL_QR_CONFIG[c].type,
      count |-> IF INITIAL_QR_CONFIG[c].type = "infinite" /\ c \in DOMAIN ls
                  THEN Len(list) ELSE INITIAL_QR_CONFIG[c].count,
      days |-> INITIAL_QR_CONFIG[c].days \cup {list[i].date : i \in 1..Len(list)}]]

\* the call, up to Storage.initDatabase
InitializeP2P(d) ==
  /\ tasks[d][InitSlot] = Idle
  /\ ~db[d]
  /\ Goto(d, InitSlot, [pc |-> "init_db", dev |-> d])
  /\ UNCHANGED <<envVars, net, uuidCounter, memVars, storeVars, histVars>>

\* Storage.initDatabase resolves or rejects; Storage.getOrCreateDeviceId starts
InitDatabase(d) ==
  LET f == tasks[d][InitSlot] IN
  /\ f.pc = "init_db"
  /\ \E ok \in Outcomes :
       IF ok
         THEN db' = [db EXCEPT ![d] = TRUE] /\ Goto(d, InitSlot, [f EXCEPT !.pc = "init_id"])
         ELSE UNCHANGED db /\ Finish(d, InitSlot)
  /\ UNCHANGED <<envVars, net, uuidCounter, socket, deviceId, sequenceNumber, localState,
                 jsonConfigState, knownDevices, pendingAcks, receivedMessageIds,
                 intervals, storeVars, histVars>>

\* Storage.getOrCreateDeviceId resolves with the stored id or a new one, or
\* rejects; initSocket starts
\* initializeP2P of the variant without a stored identity:
\* deviceId = uuidv4() in every run
InitDeviceIdFresh(d) ==
  LET f == tasks[d][InitSlot] IN
  /\ f.pc = "init_id"
  /\ deviceId' = [deviceId EXCEPT ![d] = uuidv4]
  /\ uuidCounter' = uuidCounter + 1
  /\ Goto(d, InitSlot, [f EXCEPT !.pc = "init_socket"])
  /\ UNCHANGED <<envVars, net, db, socket, sequenceNumber, localState, jsonConfigState,
                 knownDevices, pendingAcks, receivedMessageIds, intervals, storeVars,
                 histVars>>

InitDeviceId(d) ==
  LET f == tasks[d][InitSlot] IN
  /\ f.pc = "init_id"
  /\ \E ok \in Outcomes :
       IF ok
         THEN /\ IF settings[d].device_id # <<>>
                   THEN /\ deviceId' = [deviceId EXCEPT ![d] = settings[d].device_id[1]]
                        /\ UNCHANGED <<settings, uuidCounter>>
                   ELSE /\ deviceId' = [deviceId EXCEPT ![d] = uuidv4]
                        /\ settings' = [settings EXCEPT ![d].device_id = <<uuidv4>>]
                        /\ uuidCounter' = uuidCounter + 1
              /\ Goto(d, InitSlot, [f EXCEPT !.pc = "init_socket"])
         ELSE /\ Finish(d, InitSlot)
              /\ UNCHANGED <<deviceId, settings, uuidCounter>>
  /\ UNCHANGED <<envVars, net, db, socket, sequenceNumber, localState, jsonConfigState,
                 knownDevices, pendingAcks, receivedMessageIds, intervals, scans,
                 pass_types, device_state, broadcast_queue, histVars>>

\* initSocket: 'listening' (the socket is bound and receives) or 'error';
\* initializePassTypes starts
InitSocket(d) ==
  LET f == tasks[d][InitSlot] IN
  /\ f.pc = "init_socket"
  /\ \E ok \in Outcomes :
       IF ok
         THEN /\ socket' = [socket EXCEPT ![d] = TRUE]
              /\ Goto(d, InitSlot, [f EXCEPT !.pc = "init_types"])
         ELSE UNCHANGED socket /\ Finish(d, InitSlot)
  /\ UNCHANGED <<envVars, net, uuidCounter, db, deviceId, sequenceNumber, localState,
                 jsonConfigState, knownDevices, pendingAcks, receivedMessageIds,
                 intervals, storeVars, histVars>>

\* initializePassTypes: the Storage.savePassType calls resolve, or one
\* rejects; Storage.loadState starts
InitPassTypes(d) ==
  LET f == tasks[d][InitSlot] IN
  /\ f.pc = "init_types"
  /\ \E ok \in Outcomes :
       IF ok
         THEN /\ pass_types' = [pass_types EXCEPT ![d] = [c \in QR_CODES |-> TypeOfCode(c)]]
              /\ Goto(d, InitSlot, [f EXCEPT !.pc = "init_load"])
         ELSE UNCHANGED pass_types /\ Finish(d, InitSlot)
  /\ UNCHANGED <<envVars, net, uuidCounter, memVars, scans, device_state, settings,
                 broadcast_queue, histVars>>

\* localState = await Storage.loadState(QR_CODES): the rows of the tables,
\* or {} when a query failed; loadAndSaveJSONConfig starts
InitLoadState(d) ==
  LET f == tasks[d][InitSlot] IN
  /\ f.pc = "init_load"
  /\ \E ok \in Outcomes :
       LET loaded == IF ok THEN loadState(scans[d], pass_types[d]) ELSE <<>> IN
       /\ localState' = [localState EXCEPT ![d] = loaded]
       /\ Goto(d, InitSlot, [f EXCEPT !.pc = "init_config"]
                            @@ [totalScans |-> ScanIdCount(loaded)])
  /\ UNCHANGED <<envVars, net, uuidCounter, db, socket, deviceId, sequenceNumber,
                 jsonConfigState, knownDevices, pendingAcks, receivedMessageIds,
                 intervals, storeVars, histVars>>

\* loadAndSaveJSONConfig: the saved config, or the initial one, which is
\* saved (a failure leaves the initial one in memory); with scans loaded,
\* rebuildJSONConfigFromScans up to its Storage.saveJSONConfig
InitJSONConfig(d) ==
  LET f == tasks[d][InitSlot] IN
  /\ f.pc = "init_config"
  /\ \E ok \in Outcomes :
       LET saved == IF ok THEN settings[d].json_config ELSE <<>>
           first == IF saved # <<>> THEN saved[1] ELSE INITIAL_QR_CONFIG
           rebuilt == RebuildJSONConfig(localState[d])
       IN /\ settings' = IF ok /\ saved = <<>>
                           THEN [settings EXCEPT ![d].json_config = <<INITIAL_QR_CONFIG>>]
                           ELSE settings
          /\ IF f.totalScans > 0
               THEN /\ jsonConfigState' = [jsonConfigState EXCEPT ![d] = rebuilt]
                    /\ Goto(d, InitSlot, [f EXCEPT !.pc = "init_rebuild"]
                                         @@ [config |-> rebuilt])
               ELSE /\ jsonConfigState' = [jsonConfigState EXCEPT ![d] = first]
                    /\ Goto(d, InitSlot, [f EXCEPT !.pc = "init_devices"])
  /\ UNCHANGED <<envVars, net, uuidCounter, db, socket, deviceId, sequenceNumber,
                 localState, knownDevices, pendingAcks, receivedMessageIds, intervals,
                 scans, pass_types, device_state, broadcast_queue, histVars>>

\* rebuildJSONConfigFromScans: Storage.saveJSONConfig resolves or rejects
InitRebuild(d) ==
  LET f == tasks[d][InitSlot] IN
  /\ f.pc = "init_rebuild"
  /\ \E ok \in Outcomes :
       IF ok
         THEN /\ settings' = [settings EXCEPT ![d].json_config = <<f.config>>]
              /\ Goto(d, InitSlot, [f EXCEPT !.pc = "init_devices"])
         ELSE UNCHANGED settings /\ Finish(d, InitSlot)
  /\ UNCHANGED <<envVars, net, uuidCounter, memVars, scans, pass_types, device_state,
                 broadcast_queue, histVars>>

\* Storage.getAllDeviceStates resolves, with [] when the query failed: every
\* device is set in knownDevices; requestFullStateFromPeers starts its send
InitKnownDevices(d) ==
  LET f == tasks[d][InitSlot] IN
  /\ f.pc = "init_devices"
  /\ \E ok \in Outcomes :
       LET devices == IF ok THEN device_state[d] ELSE <<>> IN
       knownDevices' = [knownDevices EXCEPT ![d] =
         [k \in DOMAIN @ \cup DOMAIN devices |->
            IF k \in DOMAIN devices THEN devices[k] ELSE @[k]]]
  /\ sequenceNumber' = [sequenceNumber EXCEPT ![d] = NextSeq(@)]
  /\ Goto(d, InitSlot, [f EXCEPT !.pc = "init_request"] @@ [request |-> StateRequest(d)])
  /\ UNCHANGED <<envVars, net, uuidCounter, db, socket, deviceId, localState,
                 jsonConfigState, pendingAcks, receivedMessageIds, intervals, storeVars,
                 histVars>>

\* requestFullStateFromPeers: sendDelta(broadcast) calls back, an error is
\* logged; the five intervals are started
InitRequest(d) ==
  LET f == tasks[d][InitSlot] IN
  /\ f.pc = "init_request"
  /\ \E ok \in SendOutcomes(d) : Sent(Broadcast(d, f.request), ok)
  /\ intervals' = [intervals EXCEPT ![d] = AllIntervals]
  /\ Finish(d, InitSlot)
  /\ UNCHANGED <<envVars, uuidCounter, db, socket, deviceId, sequenceNumber, localState,
                 jsonConfigState, knownDevices, pendingAcks, receivedMessageIds,
                 storeVars, histVars>>

InitStep(d) ==
  \/ InitializeP2P(d)
  \/ InitDatabase(d)
  \/ InitDeviceId(d)
  \/ InitSocket(d)
  \/ InitPassTypes(d)
  \/ InitLoadState(d)
  \/ InitJSONConfig(d)
  \/ InitRebuild(d)
  \/ InitKnownDevices(d)
  \/ InitRequest(d)

\* The app is killed and started again: the module state is constructed
\* anew, every call in progress is gone, the store is as it was.
Restart(d) ==
  /\ db[d]
  /\ db' = [db EXCEPT ![d] = FALSE]
  /\ socket' = [socket EXCEPT ![d] = FALSE]
  /\ deviceId' = [deviceId EXCEPT ![d] = <<>>]
  /\ sequenceNumber' = [sequenceNumber EXCEPT ![d] = 0]
  /\ localState' = [localState EXCEPT ![d] = <<>>]
  /\ jsonConfigState' = [jsonConfigState EXCEPT ![d] = <<>>]
  /\ knownDevices' = [knownDevices EXCEPT ![d] = <<>>]
  /\ pendingAcks' = [pendingAcks EXCEPT ![d] = <<>>]
  /\ receivedMessageIds' = [receivedMessageIds EXCEPT ![d] = <<>>]
  /\ intervals' = [intervals EXCEPT ![d] = {}]
  /\ tasks' = [tasks EXCEPT ![d] = [s \in AllSlots |-> Idle]]
  /\ UNCHANGED <<envVars, net, uuidCounter, storeVars, histVars>>

\* The wall clock moves on to a later instant of I.
Tick(I) ==
  /\ \E t \in I : t > now /\ now' = t
  /\ UNCHANGED <<faulty, net, uuidCounter, memVars, storeVars, tasks, histVars>>

(***************************************************************************)
(* States of a device.                                                     *)
(***************************************************************************)
\* the constructed module: nothing initialised
OffMem ==
  [db |-> FALSE, socket |-> FALSE, deviceId |-> <<>>, sequenceNumber |-> 0,
   localState |-> <<>>, jsonConfigState |-> <<>>, knownDevices |-> <<>>,
   pendingAcks |-> <<>>, receivedMessageIds |-> <<>>, intervals |-> {}]

\* the store of an install that has run before: the rows `rows` in table
\* scans, the peer records `peers` in device_state
UsedStore(d, rows, peers) ==
  [scans |-> rows,
   pass_types |-> [c \in QR_CODES |-> TypeOfCode(c)],
   device_state |-> peers,
   settings |-> [device_id |-> <<StoredId(d)>>, json_config |-> <<INITIAL_QR_CONFIG>>],
   broadcast_queue |-> <<>>]

\* memory once initializeP2P has run on such a store
UpMem(d, rows, peers) ==
  [db |-> TRUE, socket |-> TRUE, deviceId |-> StoredId(d), sequenceNumber |-> 1,
   localState |-> loadState(rows, [c \in QR_CODES |-> TypeOfCode(c)]),
   jsonConfigState |-> INITIAL_QR_CONFIG, knownDevices |-> peers,
   pendingAcks |-> <<>>, receivedMessageIds |-> <<>>, intervals |-> AllIntervals]

\* a peer record as getAllDeviceStates returns it
StoredPeer(p) ==
  [deviceId |-> StoredId(p), lastSequence |-> 1, lastSeen |-> 0,
   lastHeartbeat |-> <<>>, ipAddress |-> <<IpOf(p)>>, stateHash |-> <<>>,
   connectionState |-> <<>>]

NoPeers == <<>>

\* the store of a new install: initDatabase has yet to create the tables
NewStore ==
  [scans |-> {}, pass_types |-> <<>>, device_state |-> <<>>,
   settings |-> [device_id |-> <<>>, json_config |-> <<>>],
   broadcast_queue |-> <<>>]

KnowsPeer(p) == [k \in {StoredId(p)} |-> StoredPeer(p)]

InitWith(mem, store, flt) ==
  /\ now = 0
  /\ faulty = flt
  /\ net = {}
  /\ uuidCounter = FirstUuid
  /\ db = [d \in Devices |-> mem[d].db]
  /\ socket = [d \in Devices |-> mem[d].socket]
  /\ deviceId = [d \in Devices |-> mem[d].deviceId]
  /\ sequenceNumber = [d \in Devices |-> mem[d].sequenceNumber]
  /\ localState = [d \in Devices |-> mem[d].localState]
  /\ jsonConfigState = [d \in Devices |-> mem[d].jsonConfigState]
  /\ knownDevices = [d \in Devices |-> mem[d].knownDevices]
  /\ pendingAcks = [d \in Devices |-> mem[d].pendingAcks]
  /\ receivedMessageIds = [d \in Devices |-> mem[d].receivedMessageIds]
  /\ intervals = [d \in Devices |-> mem[d].intervals]
  /\ scans = [d \in Devices |-> store[d].scans]
  /\ pass_types = [d \in Devices |-> store[d].pass_types]
  /\ device_state = [d \in Devices |-> store[d].device_state]
  /\ settings = [d \in Devices |-> store[d].settings]
  /\ broadcast_queue = [d \in Devices |-> store[d].broadcast_queue]
  /\ tasks = [d \in Devices |-> [s \in AllSlots |-> Idle]]
  /\ calls = 0
  /\ returns = {}
  /\ acksSent = [d \in Devices |-> <<>>]
  /\ deliveries = [d \in Devices |-> {}]

(***************************************************************************)
(* SpecScan: one device that is up, alone or knowing one peer; scans are   *)
(* submitted while earlier ones are still in progress; the clock moves.    *)
(***************************************************************************)
ScanCodes == QR_CODES \cup {UnknownCode}

ScanInstants == {5000, 31000, DAY_MS + 1000}

ScanStep(d) ==
  \/ \E qrCode \in ScanCodes : calls < MaxCalls /\ ScanBegin(d, qrCode)
  \/ \E s \in Slots : ScanRead(d, s)
  \/ \E s \in Slots : ScanSave(d, s)
  \/ \E s \in Slots : ScanConfig(d, s)
  \/ \E s \in Slots : ScanBcast(d, s)
  \/ \E s \in Slots : ScanEnqueue(d, s)
  \/ \E s \in Slots : ScanUnicast(d, s)

InitScan ==
  \E peers \in {NoPeers, KnowsPeer("dB")}, flt \in BOOLEAN :
    InitWith([d \in Devices |-> IF d = "dA" THEN UpMem(d, {}, peers) ELSE OffMem],
             [d \in Devices |-> UsedStore(d, {}, IF d = "dA" THEN peers ELSE NoPeers)],
             flt)

NextScan == ScanStep("dA") \/ Tick(ScanInstants)

SpecScan == InitScan /\ [][NextScan]_vars

(***************************************************************************)
(* Properties of SpecScan.                                                 *)
(***************************************************************************)
OneUseCode == "SAT25SD724M2"

InfiniteCode == "SAT25IBLXRRU"

\* the calls in progress
Frames == {f \in {tasks[d][s] : d \in Devices, s \in Slots} : f.pc \in ScanPcs}

\* the events of device d's own in the replica, for a code and a day
OwnEvents(d, c, day) ==
  {e \in AllScans(localState[d]) : e.qrCode = c /\ e.date = day /\ e.deviceId = deviceId[d]}

ScanDays == {getTodayKey(t) : t \in ScanInstants \cup {0}}

\* C1: on one device whose store does not fail, of the handleScannedQRCode
\* calls for a one-use code that had no scan that day, however they overlap,
\* at most one returns allowed=true and at most one event for the code and
\* the day is appended.
C1_AtMostOneAllowed ==
  ~faulty =>
    \A d \in Devices, day \in ScanDays :
      /\ Cardinality({r \in returns : /\ r.dev = d /\ r.qrCode = OneUseCode
                                      /\ r.result.allowed
                                      /\ r.event[1].date = day}) <= 1
      /\ Cardinality(OwnEvents(d, OneUseCode, day)) <= 1

\* C4: every handleScannedQRCode that returned allowed=true has appended
\* exactly one event to the replica, with the submitted code, the device's
\* id, the day key of the submission and a scanId no other event has; the
\* event is in table scans; a delta carrying it was handed to the socket for
\* every peer with an address, or for broadcast when there is none.
C4_AllowedScanApplied ==
  \A r \in returns :
    r.result.allowed =>
      /\ Len(r.event) = 1
      /\ LET e == r.event[1]
             list == localState[r.dev][r.qrCode].scans
         IN /\ e.qrCode = r.qrCode
            /\ e.deviceId = deviceId[r.dev]
            /\ e.date = getTodayKey(e.timestamp)
            /\ Cardinality({i \in 1..Len(list) : list[i] = e}) = 1
            /\ Cardinality({x \in AllScans(localState[r.dev]) : x.scanId = e.scanId}) = 1
            /\ e \in scans[r.dev]
            /\ Len(r.message) = 1
            /\ r.message[1].type = "delta"
            /\ r.message[1].deltas = <<e>>
            /\ IF r.targets = {} THEN r.broadcast /\ r.attempted = {}
               ELSE ~r.broadcast /\ r.attempted = r.targets

\* C4 happens: an allowed call that handed the delta to the socket for a peer
C4_Witness ==
  \E r \in returns : r.result.allowed /\ r.targets # {} /\ r.attempted = r.targets

\* the admission predicate of the specification, on the pass-type map, the
\* code, the set `today` and the clock
Reference(passTypes, code, today, t) ==
  IF code \notin DOMAIN passTypes
    THEN [verdict |-> "deny", reason |-> "unknown", count |-> -1]
  ELSE IF passTypes[code] = "one-use" /\ today # {}
    THEN [verdict |-> "deny", reason |-> "one-use already used today", count |-> -1]
  ELSE IF \E e \in today : e.timestamp > t - 30000
    THEN [verdict |-> "deny", reason |-> "cooldown", count |-> -1]
  ELSE [verdict |-> "allow", reason |-> "", count |-> Cardinality(today)]

\* a ScanValidationResult in the terms of the specification
Verdict(v) ==
  IF v.allowed THEN [verdict |-> "allow", reason |-> "", count |-> v.todayScansCount]
  ELSE [verdict |-> "deny",
        reason |-> IF v.reason = "Unknown QR code" THEN "unknown"
                   ELSE IF v.reason = "One-use pass already used today"
                     THEN "one-use already used today"
                   ELSE IF v.reason = "Already scanned within the last 30 seconds"
                     THEN "cooldown"
                   ELSE "other",
        count |-> -1]

\* the calls whose validateScan has returned
Validated == returns \cup {f \in Frames : f.pc # "scan_read"}

PassTypes(d) == [c \in DOMAIN jsonConfigState[d] |-> jsonConfigState[d][c].type]

Sequential == \A f \in returns \cup Frames : f.after = 1..(f.call - 1)

\* the allowed calls for r's code on r's device before r
PriorAllowed(r) ==
  {q \in returns : /\ q.dev = r.dev /\ q.qrCode = r.qrCode /\ q.call < r.call
                   /\ q.result.allowed}

NetInstants == {ACK_TIMEOUT + 1000}

InitNet ==
  \E peersB \in {NoPeers, KnowsPeer("dA")}, flt \in BOOLEAN :
    InitWith([d \in Devices |-> IF d = "dA" THEN UpMem(d, {}, KnowsPeer("dB"))
                                ELSE IF d = "dB" THEN UpMem(d, {}, peersB) ELSE OffMem],
             [d \in Devices |-> UsedStore(d, {}, IF d = "dA" THEN KnowsPeer("dB")
                                                 ELSE IF d = "dB" THEN peersB
                                                 ELSE NoPeers)],
             flt)

NextNet ==
  \/ (calls = 0 /\ ScanBegin("dA", OneUseCode))
  \/ \E s \in Slots : ScanRead("dA", s)
  \/ \E s \in Slots : ScanSave("dA", s)
  \/ \E s \in Slots : ScanConfig("dA", s)
  \/ \E s \in Slots : ScanUnicast("dA", s)
  \/ HandlerStep("dA")
  \/ HandlerStep("dB")
  \/ \E s \in Slots : HAck("dB", s)
  \/ AckRetryTimer("dA")
  \/ \E s \in AllSlots : RetrySend("dA", s)
  \/ \E dg \in net : Lose(dg)
  \/ Tick(NetInstants)

SpecNet == InitNet /\ [][NextNet]_vars

\* a delta from another device whose messageId is in d's cache
IsDuplicateDelta(d, dg) ==
  /\ dg.to = d
  /\ dg.msg.type = "delta"
  /\ dg.msg.deviceId # deviceId[d]
  /\ HasMessageId(dg.msg)
  /\ dg.msg.messageId \in SeqToSet(receivedMessageIds[d])

\* C6: the step that takes a delta whose messageId is already in the
\* receiver's cache off the network changes nothing of the receiver: not the
\* replica, the tables, the config projection, the pending ACKs and the peer
\* table; it sends no ACK and starts no handler that could.
C6_DuplicateDropped ==
  [][\A d \in Devices : \A dg \in net :
       (IsDuplicateDelta(d, dg) /\ net' = net \ {dg}) =>
         /\ localState'[d] = localState[d]
         /\ jsonConfigState'[d] = jsonConfigState[d]
         /\ scans'[d] = scans[d]
         /\ pass_types'[d] = pass_types[d]
         /\ settings'[d] = settings[d]
         /\ device_state'[d] = device_state[d]
         /\ pendingAcks'[d] = pendingAcks[d]
         /\ knownDevices'[d] = knownDevices[d]
         /\ receivedMessageIds'[d] = receivedMessageIds[d]
         /\ sequenceNumber'[d] = sequenceNumber[d]
         /\ acksSent'[d] = acksSent[d]
         /\ tasks'[d] = tasks[d]]_vars

\* C6 happens: the listener was called with a delta it had received before
C6_Witness ==
  \E d \in Devices : \E r \in deliveries[d] :
    r.duplicate /\ r.message.type = "delta" /\ r.message.deviceId # deviceId[d]

\* the handlers of device d that work on the message with this id
HandlersOf(d, messageId) ==
  {s \in Slots : /\ tasks[d][s].pc \in {"h_upsert", "h_request", "h_save", "h_config", "h_ack"}
                 /\ HasMessageId(tasks[d][s].message)
                 /\ tasks[d][s].message.messageId = messageId}

\* the sendAck calls of device d for a message id to an address
AcksFor(d, messageId, address) ==
  {i \in 1..Len(acksSent[d]) :
     acksSent[d][i].messageId = messageId /\ acksSent[d][i].to = address}

\* C7: for every delta with a messageId that a device received from another
\* one, once its handler has ended exactly one ACK with that id has been
\* sent to the address the delta came from: also when the delta brought
\* nothing new and when persisting failed.
C7_ExactlyOneAck ==
  \A d \in Devices : \A r \in deliveries[d] :
    (/\ r.message.type = "delta"
     /\ HasMessageId(r.message)
     /\ r.message.deviceId # deviceId[d]
     /\ HandlersOf(d, r.message.messageId) = {}) =>
      Cardinality(AcksFor(d, r.message.messageId, r.address)) = 1

(***************************************************************************)
(* SpecInit: dA starts on the store of an earlier run while dB, which      *)
(* knows dA and holds one scan, is already up and sends its state.  No     *)
(* store operation and no send fails.                                      *)
(***************************************************************************)
\* a scan of dB's, made before
ScanOfB ==
  [scanId |-> Uuid(FirstUuid), qrCode |-> InfiniteCode, timestamp |-> 0,
   deviceId |-> StoredId("dB"), date |-> getTodayKey(0)]

InitInit ==
    InitWith([d \in Devices |-> IF d = "dB" THEN UpMem(d, {ScanOfB}, KnowsPeer("dA"))
                                ELSE OffMem],
             [d \in Devices |-> UsedStore(d, IF d = "dB" THEN {ScanOfB} ELSE {},
                                          IF d = "dB" THEN KnowsPeer("dA") ELSE NoPeers)],
             FALSE)

NextInit ==
  \/ InitStep("dA")
  \/ HandlerStep("dA")
  \/ HandlerStep("dB")
  \/ SyncTimer("dB")

SpecInit == InitInit /\ [][NextInit]_vars

\* C2: no step takes a scanId out of a device's in-memory replica.
C2_ReplicaNeverShrinks ==
  [][\A d \in Devices : AllScanIds(localState[d]) \subseteq AllScanIds(localState'[d])]_vars

(***************************************************************************)
(* SpecLive: dA and dB are up and have each other in knownDevices; their   *)
(* replicas differ; no scan is submitted, nothing fails.  The sync         *)
(* interval of each fires again and again, a socket.send that has room     *)
(* completes, a datagram in flight is delivered and an awaited store       *)
(* operation resolves.                                                     *)
(***************************************************************************)
\* a scan of dA's, made before
ScanOfA ==
  [scanId |-> <<FirstUuid, 1>>, qrCode |-> OneUseCode, timestamp |-> 0,
   deviceId |-> StoredId("dA"), date |-> getTodayKey(0)]

LiveDevices == {"dA", "dB"}

PeerOf(d) == IF d = "dA" THEN "dB" ELSE "dA"

InitLive ==
  \E rowsA \in {{ScanOfA}}, rowsB \in {{}, {ScanOfB}} :
    LET rows == [d \in Devices |-> IF d = "dA" THEN rowsA ELSE rowsB] IN
    InitWith([d \in Devices |-> IF d \in LiveDevices
                                  THEN UpMem(d, rows[d], KnowsPeer(PeerOf(d)))
                                  ELSE OffMem],
             [d \in Devices |-> IF d \in LiveDevices
                                  THEN UsedStore(d, rows[d], KnowsPeer(PeerOf(d)))
                                  ELSE UsedStore(d, {}, NoPeers)],
             FALSE)

LiveDeliver(d) == \E dg \in net : Deliver(d, dg)

LiveUpsert(d) == \E s \in Slots : HUpsert(d, s)

LiveSave(d) == \E s \in Slots : HSave(d, s)

LiveConfig(d) == \E s \in Slots : HConfig(d, s)

LiveSend(d) == FsSend(d, SyncSlot)

\* the sync interval fires, while the sequence number is below its bound
LiveSync(d) == sequenceNumber[d] < MaxSeq /\ SyncTimer(d)

NextLive ==
  \E d \in LiveDevices :
    \/ LiveSync(d)
    \/ LiveSend(d)
    \/ LiveDeliver(d)
    \/ LiveUpsert(d)
    \/ LiveSave(d)
    \/ LiveConfig(d)

FairLive ==
  \A d \in LiveDevices :
    /\ WF_vars(LiveSync(d))
    /\ WF_vars(LiveSend(d))
    /\ WF_vars(LiveDeliver(d))
    /\ WF_vars(LiveUpsert(d))
    /\ WF_vars(LiveSave(d))
    /\ WF_vars(LiveConfig(d))

SpecLive == InitLive /\ [][NextLive]_vars /\ FairLive

\* the replicas of dA and dB hold the same events and hash alike
Converged ==
  /\ AllScans(localState["dA"]) = AllScans(localState["dB"])
  /\ calculateStateHash(localState["dA"]) = calculateStateHash(localState["dB"])

\* C3: two devices that know each other, with no new scan, fair timers and
\* fair delivery: eventually both hold the same scan events and equal state
\* hashes, and stay so.
C3_Convergence == <>[]Converged

\* each has taken over an event it did not start with
C3_Witness ==
  /\ Converged
  /\ ScanOfB \in AllScans(localState["dA"]) /\ ScanOfB \notin scans["dA"]
  /\ ScanOfA \in AllScans(localState["dB"]) /\ ScanOfA \notin scans["dB"]

(***************************************************************************)
(* SpecMerge: the in-memory part of mergeDeltaScans as a function.  dA and *)
(* dB start from the same replica and are given batches drawn from a pool  *)
(* of events, in any order and any number of times.  The table scans keeps *)
(* the rows the replica was loaded from.                                   *)
(***************************************************************************)
MergeEvent(k, t) ==
  [scanId |-> <<FirstUuid + k, 1>>, qrCode |-> InfiniteCode, timestamp |-> t,
   deviceId |-> StoredId("dC"), date |-> getTodayKey(t)]

\* two events of one device and one millisecond, and one that is later
MergePool == {MergeEvent(1, 1000), MergeEvent(2, 1000), MergeEvent(3, 2000)}

MergeBatches == {<<e>> : e \in MergePool} \cup {<<e1, e2>> : e1 \in MergePool, e2 \in MergePool}

InitMerge ==
  \E rows \in SUBSET {ScanOfB} :
    InitWith([d \in Devices |-> IF d \in LiveDevices THEN UpMem(d, rows, NoPeers) ELSE OffMem],
             [d \in Devices |-> UsedStore(d, IF d \in LiveDevices THEN rows ELSE {}, NoPeers)],
             FALSE)

ApplyMerge(d, batch) ==
  /\ localState' = [localState EXCEPT ![d] = MergeMemory(@, batch)[1]]
  /\ UNCHANGED <<envVars, net, uuidCounter, db, socket, deviceId, sequenceNumber,
                 jsonConfigState, knownDevices, pendingAcks, receivedMessageIds,
                 intervals, storeVars, tasks, histVars>>

NextMerge == \E d \in LiveDevices, batch \in MergeBatches : ApplyMerge(d, batch)

SpecMerge == InitMerge /\ [][NextMerge]_vars

\* the events merged into device d's replica since it was loaded
Merged(d) == AllScans(localState[d]) \ scans[d]

\* C5: replicas that started alike and were given the same events, in
\* whatever batches, order and repetition, are identical, the sequence of
\* every code's events included.
C5_MergeOrderInsensitive ==
  Merged("dA") = Merged("dB") => localState["dA"] = localState["dB"]

(***************************************************************************)
(* SpecThree: dA, dB and dC are up with empty replicas; dA knows dB and    *)
(* dC, dB and dC know dA.  dA and dB each submit the one-use code while    *)
(* their replica is empty; dC submits it once its replica holds an event   *)
(* for it, and its call is followed up to the decision of validateScan.    *)
(* Nothing fails, the clock stands.                                        *)
(***************************************************************************)
KnowsPeers(P) == [k \in {StoredId(p) : p \in P} |->
                    StoredPeer(CHOOSE p \in P : StoredId(p) = k)]

PeersOfThree(d) == IF d = "dA" THEN KnowsPeers({"dB", "dC"}) ELSE KnowsPeer("dA")

InitThree ==
  InitWith([d \in Devices |-> UpMem(d, {}, PeersOfThree(d))],
           [d \in Devices |-> UsedStore(d, {}, PeersOfThree(d))],
           FALSE)

\* device d has called handleScannedQRCode
Called(d) ==
  \/ \E s \in Slots : tasks[d][s].pc \in ScanPcs
  \/ \E r \in returns : r.dev = d

\* the events for the one-use code in device d's replica
HeldOf(d) == {e \in AllScans(localState[d]) : e.qrCode = OneUseCode}

FirstScan(d) == ~Called(d) /\ HeldOf(d) = {} /\ ScanBegin(d, OneUseCode)

LaterScan(d) == ~Called(d) /\ HeldOf(d) # {} /\ ScanBegin(d, OneUseCode)

ScanGoesOn(d) ==
  \/ \E s \in Slots : ScanRead(d, s)
  \/ \E s \in Slots : ScanSave(d, s)
  \/ \E s \in Slots : ScanConfig(d, s)
  \/ \E s \in Slots : ScanUnicast(d, s)

Receives(d) ==
  \/ \E dg \in net : Deliver(d, dg)
  \/ \E s \in Slots : HUpsert(d, s)
  \/ \E s \in Slots : HSave(d, s)
  \/ \E s \in Slots : HConfig(d, s)
  \/ \E s \in Slots : HAck(d, s)

NextThree ==
  \/ FirstScan("dA")
  \/ FirstScan("dB")
  \/ LaterScan("dC")
  \/ \E d \in {"dA", "dB"} : ScanGoesOn(d)
  \/ \E s \in Slots : ScanRead("dC", s)
  \/ \E d \in Devices : Receives(d)

SpecThree == InitThree /\ [][NextThree]_vars

\* the step in which validateScan decides a call of device d for the
\* one-use code
Decides(d, s) ==
  /\ tasks[d][s].pc = "scan_read"
  /\ tasks[d][s].qrCode = OneUseCode
  /\ tasks'[d][s].pc # "scan_read"

Allows(d, s) == tasks'[d][s].pc = "scan_save"

\* C10: dA and dB, whose replicas are empty, submit the same one-use code
\* before either has the other's event: both are allowed; once each has
\* merged the other's event both replicas hold exactly two events for the
\* code; a later submit on the same day on a device that has merged one of
\* the two events is denied.
C10_ConcurrentOneUse ==
  [][/\ \A d \in {"dA", "dB"}, s \in Slots :
          Decides(d, s) /\ HeldOf(d) = {} => Allows(d, s)
     /\ \A d \in {"dA", "dB"} :
          (\A p \in {"dA", "dB"} : \E e \in HeldOf(d)' : e.deviceId = deviceId[p]) =>
            Cardinality(HeldOf(d)') = 2
     /\ \A s \in Slots :
          Decides("dC", s) => ~Allows("dC", s)]_vars

\* the step in which validateScan of a call of device d evaluates
Evaluates(d, s) ==
  /\ tasks[d][s].pc = "scan_read"
  /\ tasks'[d][s].pc # "scan_read"

\* todayScans of that evaluation: the rows Storage.getScansForQROnDate reads
TodayRead(d, s) ==
  SeqToSet(getScansForQROnDate(scans[d], tasks[d][s].qrCode, tasks[d][s].today))

\* the events of the in-memory replica for the code and the day of the call
TodayHeld(d, s) ==
  {e \in AllScans(localState[d]) :
     e.qrCode = tasks[d][s].qrCode /\ e.date = tasks[d][s].today}

\* C17: at every admission evaluation the set `today` the predicate uses is
\* the in-memory replica's set of events for the code and the day; an event
\* merged from a peer or appended by an earlier local scan is in it.
C17_TodayIsReplica ==
  [][\A d \in Devices, s \in Slots :
       Evaluates(d, s) => TodayRead(d, s) = TodayHeld(d, s)]_vars

(***************************************************************************)
(* SpecRecon: dA and dB are up and know each other.  dA admits a scan;     *)
(* every delta in flight is lost, every other datagram is delivered.  When *)
(* the call has returned dA's reconciliation interval fires, while the     *)
(* sequence number is below its bound.  Nothing else fails.                *)
(***************************************************************************)
InitRecon ==
  \E rowsB \in SUBSET {ScanOfB} :
    LET rows == [d \in Devices |-> IF d = "dB" THEN rowsB ELSE {}] IN
    InitWith([d \in Devices |-> IF d \in LiveDevices
                                  THEN UpMem(d, rows[d], KnowsPeer(PeerOf(d)))
                                  ELSE OffMem],
             [d \in Devices |-> IF d \in LiveDevices
                                  THEN UsedStore(d, rows[d], KnowsPeer(PeerOf(d)))
                                  ELSE UsedStore(d, {}, NoPeers)],
             FALSE)

ReconScan == calls = 0 /\ \E qrCode \in QR_CODES : ScanBegin("dA", qrCode)

ReconScanGoesOn ==
  \/ \E s \in Slots : ScanRead("dA", s)
  \/ \E s \in Slots : ScanSave("dA", s)
  \/ \E s \in Slots : ScanConfig("dA", s)
  \/ \E s \in Slots : ScanUnicast("dA", s)

DropDelta == \E dg \in net : dg.msg.type = "delta" /\ Drop(dg)

ReconFires == returns # {} /\ sequenceNumber["dA"] < MaxSeq /\ ReconTimer("dA")

ReconSends == ReconSend("dA", ReconSlot)

ReconDeliver(d) == \E dg \in net : dg.msg.type # "delta" /\ Deliver(d, dg)

ReconRequest == \E s \in Slots : HRequest("dB", s)

ReconAnswer == \E s \in Slots : FsSend("dA", s)

NextRecon ==
  \/ ReconScan
  \/ ReconScanGoesOn
  \/ DropDelta
  \/ ReconFires
  \/ ReconSends
  \/ ReconDeliver("dA")
  \/ ReconDeliver("dB")
  \/ LiveUpsert("dA")
  \/ LiveUpsert("dB")
  \/ ReconRequest
  \/ ReconAnswer
  \/ LiveSave("dB")
  \/ LiveConfig("dB")

FairRecon ==
  /\ WF_vars(ReconScan)
  /\ WF_vars(ReconScanGoesOn)
  /\ WF_vars(DropDelta)
  /\ WF_vars(ReconFires)
  /\ WF_vars(ReconSends)
  /\ WF_vars(ReconDeliver("dA"))
  /\ WF_vars(ReconDeliver("dB"))
  /\ WF_vars(LiveUpsert("dA"))
  /\ WF_vars(LiveUpsert("dB"))
  /\ WF_vars(ReconRequest)
  /\ WF_vars(ReconAnswer)
  /\ WF_vars(LiveSave("dB"))
  /\ WF_vars(LiveConfig("dB"))

SpecRecon == InitRecon /\ [][NextRecon]_vars /\ FairRecon

\* dB holds every event of dA's replica
HoldsAll == AllScans(localState["dA"]) \subseteq AllScans(localState["dB"])

\* C11: dA admits a scan, its deltas to dB are all lost, state-hash,
\* state-request and full-state datagrams are delivered: eventually dB
\* holds all of dA's events, and keeps them.
C11_HashReconciles == <>[](returns # {} /\ HoldsAll)

\* dB holds the event dA admitted; no delta has reached dB, a state-hash
\* and a full-state have
C11_Witness ==
  /\ \E r \in returns : r.result.allowed /\ r.event[1] \in AllScans(localState["dB"])
  /\ \A r \in deliveries["dB"] : r.message.type # "delta"
  /\ \E r \in deliveries["dB"] : r.message.type = "state-hash"
  /\ \E r \in deliveries["dB"] : r.message.type = "full-state"
  /\ \E r \in deliveries["dA"] : r.message.type = "state-request"

(***************************************************************************)
(* SpecShut: dA is up and has dB, which is off, in knownDevices.  Its sync *)
(* reconciliation and queue intervals fire; a failed send leaves a row in  *)
(* broadcast_queue; shutdownP2P is called at any moment.                   *)
(***************************************************************************)
InitShut ==
  \E flt \in BOOLEAN :
    InitWith([d \in Devices |-> IF d = "dA" THEN UpMem(d, {}, KnowsPeer("dB")) ELSE OffMem],
             [d \in Devices |-> UsedStore(d, {}, IF d = "dA" THEN KnowsPeer("dB") ELSE NoPeers)],
             flt)

\* one callback of the queue interval at a time
ShutQueueTimer == tasks["dA"][QueueSlot] = Idle /\ QueueTimer("dA")

NextShut ==
  \/ shutdownP2P("dA")
  \/ SyncTimer("dA")
  \/ FsSend("dA", SyncSlot)
  \/ ReconTimer("dA")
  \/ ReconSend("dA", ReconSlot)
  \/ ShutQueueTimer
  \/ QueueRead("dA", QueueSlot)
  \/ QueueSend("dA", QueueSlot)
  \/ QueueRemove("dA", QueueSlot)
  \/ QueueUpdate("dA", QueueSlot)
  \/ LiveDeliver("dA")

SpecShut == InitShut /\ [][NextShut]_vars

\* shutdownP2P has returned on device d
HasShutDown(d) == intervals[d] # {} /\ intervals[d] # AllIntervals

TimerSlots == {SyncSlot, AckRetrySlot, OverlapSlot, ReconSlot, QueueSlot, QueueOverlapSlot,
               HeartbeatSlot}

\* C12: once shutdownP2P has returned the socket is closed, no interval
\* callback starts and the device sends no datagram.
C12_ShutdownStops ==
  [][\A d \in Devices :
       HasShutDown(d) =>
         /\ ~socket'[d]
         /\ \A s \in TimerSlots : tasks[d][s] = Idle => tasks'[d][s] = Idle
         /\ \A dg \in net' \ net : dg.from # IpOf(d)]_vars

(***************************************************************************)
(* SpecRestart: dA, alone, runs initializeP2P on the store an earlier run  *)
(* left: any rows of a pool that holds scans of both codes of QR_CODES and *)
(* a scan, merged from a peer, of a code that is not in QR_CODES.  Nothing *)
(* fails.                                                                  *)
(***************************************************************************)
\* a scan of a peer's for a code outside QR_CODES
ScanOfOther ==
  [scanId |-> <<FirstUuid, 2>>, qrCode |-> UnknownCode, timestamp |-> 1000,
   deviceId |-> StoredId("dB"), date |-> getTodayKey(1000)]

\* a scan of dA's on the next day
ScanNextDay ==
  [scanId |-> <<FirstUuid, 3>>, qrCode |-> OneUseCode, timestamp |-> DAY_MS,
   deviceId |-> StoredId("dA"), date |-> getTodayKey(DAY_MS)]

RestartPool == {ScanOfA, ScanOfB, ScanOfOther, ScanNextDay}

InitRestart ==
  \E rows \in SUBSET RestartPool :
    InitWith([d \in Devices |-> OffMem],
             [d \in Devices |-> UsedStore(d, IF d = "dA" THEN rows ELSE {}, NoPeers)],
             FALSE)

NextRestart == InitStep("dA") \/ LiveDeliver("dA")

SpecRestart == InitRestart /\ [][NextRestart]_vars

\* initializeP2P has returned on device d
InitDone(d) == tasks[d][InitSlot] = Idle /\ intervals[d] = AllIntervals

\* C13: after init on an unchanged store the replica holds exactly the scan
\* events of the store, field by field, whatever their code.
C13_RestartRoundTrip ==
  InitDone("dA") => AllScans(localState["dA"]) = scans["dA"]

(***************************************************************************)
(* Properties of SpecInit: the peer upsert of the message listener.        *)
(***************************************************************************)
\* the step in which the listener of device d takes a message into slot s
Started(d, s) == tasks[d][s] = Idle /\ tasks'[d][s].pc = "h_upsert"

\* the step in which Storage.updateDeviceState of the handler in slot s resolves
Upserted(d, s) == tasks[d][s].pc = "h_upsert" /\ tasks'[d][s] # tasks[d][s]

\* the step in which the state-request of the upsert is sent
Requested(d, s) ==
  /\ tasks[d][s].pc = "h_request"
  /\ tasks[d][s].dispatch
  /\ tasks'[d][s] # tasks[d][s]

PeerInstants == {20000, PEER_TIMEOUT - 1, PEER_TIMEOUT, 45000, 80000}

InitPeers ==
  InitWith([d \in Devices |-> UpMem(d, {}, IF d = "dA" THEN KnowsPeers({"dB", "dC"})
                                           ELSE KnowsPeer("dA"))],
           [d \in Devices |-> UsedStore(d, {}, IF d = "dA" THEN KnowsPeers({"dB", "dC"})
                                               ELSE KnowsPeer("dA"))],
           FALSE)

NextPeers ==
  \/ Tick(PeerInstants)
  \/ LiveSync("dB")
  \/ LiveSend("dB")
  \/ sequenceNumber["dC"] < MaxSeq /\ ReconTimer("dC")
  \/ ReconSend("dC", ReconSlot)
  \/ LiveDeliver("dA")
  \/ LiveUpsert("dA")

SpecPeers == InitPeers /\ [][NextPeers]_vars

\* the peer records of device d last seen after now - 30 s
SeenLately(d) == {k \in DOMAIN knownDevices[d] : knownDevices[d][k].lastSeen + 30000 > now}

InitIdentity ==
  \E used \in BOOLEAN, flt \in BOOLEAN :
    InitWith([d \in Devices |-> OffMem],
             [d \in Devices |-> IF d = "dA" /\ ~used THEN NewStore
                                ELSE UsedStore(d, {}, IF d = "dA" THEN KnowsPeer("dB")
                                                      ELSE NoPeers)],
             flt)

NextIdentity ==
  \/ InitStep("dA")
  \/ Restart("dA")
  \/ ScanStep("dA")
  \/ \E dg \in net : Drop(dg)

SpecIdentity == InitIdentity /\ [][NextIdentity]_vars

\* getOrCreateDeviceId of device d returns in this step
ReturnsDeviceId(d) ==
  /\ tasks[d][InitSlot].pc = "init_id"
  /\ tasks'[d][InitSlot].pc = "init_socket"

\* the device ids in the events device d holds and in the messages it has
\* in flight
IdsPutBy(d) ==
  {e.deviceId : e \in AllScans(localState[d]) \cup scans[d]}
    \cup {dg.msg.deviceId : dg \in {g \in net : g.from = IpOf(d)}}

\* C16: getOrCreateDeviceId calls the generator only when no identity is
\* stored; a stored identity is never replaced and every call returns it, in
\* this run and after restarts; the events and messages of the device carry
\* no other device id.
C16_StableIdentity ==
  [][\A d \in {"dA"} :
       /\ (tasks[d][InitSlot].pc = "init_id" /\ uuidCounter' # uuidCounter)
            => settings[d].device_id = <<>>
       /\ settings[d].device_id # <<>> => settings'[d].device_id = settings[d].device_id
       /\ ReturnsDeviceId(d) => settings'[d].device_id = <<deviceId'[d]>>
       /\ deviceId'[d] # <<>> => settings'[d].device_id = <<deviceId'[d]>>
       /\ \A id \in IdsPutBy(d)' : settings'[d].device_id = <<id>>]_vars

\* the identity was generated on a new install, a scan of that run is in
\* the store, and after a restart getOrCreateDeviceId has returned again
C16_Witness ==
  /\ settings["dA"].device_id = <<Uuid(FirstUuid + 1)>>
  /\ \E e \in scans["dA"] : e.deviceId = Uuid(FirstUuid + 1)
  /\ localState["dA"] = <<>>
  /\ tasks["dA"][InitSlot].pc = "init_socket"
  /\ deviceId["dA"] = Uuid(FirstUuid + 1)

(***************************************************************************)
(* SpecHash: dA and dB are up and know each other; each holds some of four *)
(* events that dC made for the infinite pass.  dA's reconciliation         *)
(* interval sends its hash, dB's listener compares it with its own; the    *)
(* state-request of a mismatch is lost.  Nothing fails.                    *)
(***************************************************************************)
HashScan(k) ==
  [scanId |-> Uuid(FirstUuid + k), qrCode |-> InfiniteCode, timestamp |-> k,
   deviceId |-> StoredId("dC"), date |-> getTodayKey(k)]

HashPool == {HashScan(k) : k \in 1..4}

InitHash ==
  \E rowsA \in SUBSET HashPool, rowsB \in SUBSET HashPool :
    LET rows == [d \in Devices |-> IF d = "dA" THEN rowsA ELSE rowsB] IN
    InitWith([d \in Devices |-> IF d \in LiveDevices
                                  THEN UpMem(d, rows[d], KnowsPeer(PeerOf(d)))
                                  ELSE OffMem],
             [d \in Devices |-> IF d \in LiveDevices
                                  THEN UsedStore(d, rows[d], KnowsPeer(PeerOf(d)))
                                  ELSE UsedStore(d, {}, NoPeers)],
             FALSE)

HashFires == sequenceNumber["dA"] < MaxSeq /\ ReconTimer("dA")

DropRequest == \E dg \in net : dg.msg.type = "state-request" /\ Drop(dg)

NextHash ==
  \/ HashFires
  \/ ReconSends
  \/ ReconDeliver("dB")
  \/ LiveUpsert("dB")
  \/ ReconRequest
  \/ DropRequest

SpecHash == InitHash /\ [][NextHash]_vars

\* this step of device d sets the phase of peer p to synced
SetsSynced(d, p) ==
  /\ knownDevices[d][StoredId(p)].connectionState # <<"synced">>
  /\ knownDevices'[d][StoredId(p)].connectionState = <<"synced">>

\* C18: replicas with equal calculateStateHash hold the same set of
\* scanIds; a device sets a peer to synced on a state-hash message only
\* when the sender's set and its own are the same.
C18_EqualHashEqualSets ==
  [][/\ calculateStateHash(localState["dA"]) = calculateStateHash(localState["dB"])
          => AllScanIds(localState["dA"]) = AllScanIds(localState["dB"])
     /\ SetsSynced("dB", "dA")
          => AllScanIds(localState["dA"]) = AllScanIds(localState["dB"])]_vars

(***************************************************************************)
(* SpecSnapshot: dA and dB are up and know each other.  dB's replica has   *)
(* an entry for a code that is not in dA's list, of either type, with or   *)
(* without a scan; dA's replica has the codes of its list.  dB's sync      *)
(* interval sends its full state, dA merges it.  Nothing fails.            *)
(***************************************************************************)
WithCode(mem, qrCode, entry) ==
  [mem EXCEPT !.localState =
     [c \in DOMAIN mem.localState \cup {qrCode} |->
        IF c = qrCode THEN entry ELSE mem.localState[c]]]

InitSnapshot ==
  \E type \in {"infinite", "one-use"}, rows \in SUBSET {ScanOfOther} :
    InitWith([d \in Devices |->
                IF d = "dA" THEN UpMem(d, {}, KnowsPeer("dB"))
                ELSE IF d = "dB"
                  THEN WithCode(UpMem(d, {}, KnowsPeer("dA")), UnknownCode,
                                [type |-> type, scans |-> SetToSeq(rows)])
                ELSE OffMem],
             [d \in Devices |->
                UsedStore(d, IF d = "dB" THEN rows ELSE {},
                          IF d \in LiveDevices THEN KnowsPeer(PeerOf(d)) ELSE NoPeers)],
             FALSE)

NextSnapshot ==
  \/ LiveSync("dB")
  \/ LiveSend("dB")
  \/ LiveDeliver("dA")
  \/ LiveUpsert("dA")
  \/ LiveSave("dA")

SpecSnapshot == InitSnapshot /\ [][NextSnapshot]_vars

\* the step in which the handler in slot s of device d runs mergeFullState
\* on the snapshot of its message
MergesFullState(d, s) ==
  /\ tasks[d][s].pc = "h_upsert"
  /\ tasks[d][s].message.type = "full-state"
  /\ tasks'[d][s].pc # "h_upsert"

\* C19: after mergeFullState every code that the snapshot has and the
\* replica had not is in the replica, with the type the snapshot declares.
C19_SnapshotTypeKept ==
  [][\A d \in Devices, s \in Slots :
       MergesFullState(d, s) =>
         \A c \in DOMAIN tasks[d][s].message.fullState \ DOMAIN localState[d] :
           /\ c \in DOMAIN localState'[d]
           /\ localState'[d][c].type = tasks[d][s].message.fullState[c].type]_vars

(***************************************************************************)
(* SpecUnknown: dA and dB are up and know each other.  dB's code list and  *)
(* config have a code that dA's have not.  dB admits a scan of that code,  *)
(* its delta and its periodic full state reach dA, which merges them; the  *)
(* code is submitted on dA at any moment.  Nothing fails.                  *)
(***************************************************************************)
WithConfigEntry(cfg, qrCode) ==
  [c \in DOMAIN cfg \cup {qrCode} |->
     IF c = qrCode THEN [type |-> TypeOfCode(qrCode), count |-> 0, days |-> {}]
     ELSE cfg[c]]

\* memory and store of a device whose list has qrCode as well
MemWithCode(mem, qrCode) ==
  [WithCode(mem, qrCode, [type |-> TypeOfCode(qrCode), scans |-> <<>>])
     EXCEPT !.jsonConfigState = WithConfigEntry(@, qrCode)]

StoreWithCode(store, qrCode) ==
  [store EXCEPT
     !.pass_types = [c \in DOMAIN @ \cup {qrCode} |-> TypeOfCode(c)],
     !.settings.json_config = <<WithConfigEntry(@[1], qrCode)>>]

InitUnknown ==
  InitWith([d \in Devices |->
              IF d = "dA" THEN UpMem(d, {}, KnowsPeer("dB"))
              ELSE IF d = "dB" THEN MemWithCode(UpMem(d, {}, KnowsPeer("dA")), UnknownCode)
              ELSE OffMem],
           [d \in Devices |->
              IF d = "dA" THEN UsedStore(d, {}, KnowsPeer("dB"))
              ELSE IF d = "dB"
                THEN StoreWithCode(UsedStore(d, {}, KnowsPeer("dA")), UnknownCode)
              ELSE UsedStore(d, {}, NoPeers)],
           FALSE)

NextUnknown ==
  \/ ~Called("dB") /\ ScanBegin("dB", UnknownCode)
  \/ ScanGoesOn("dB")
  \/ LiveSync("dB")
  \/ LiveSend("dB")
  \/ LiveDeliver("dB")
  \/ LiveUpsert("dB")
  \/ LiveDeliver("dA")
  \/ LiveUpsert("dA")
  \/ LiveSave("dA")
  \/ \E s \in Slots : HAck("dA", s)
  \/ calls < MaxCalls /\ ScanBegin("dA", UnknownCode)

SpecUnknown == InitUnknown /\ [][NextUnknown]_vars

\* the calls of device d for qrCode that were denied as unknown
DeniedUnknown(d, qrCode) ==
  {r \in returns : r.dev = d /\ r.qrCode = qrCode /\ r.result = Unknown}

\* C20: a call for a code that is not in the device's pass-type map is
\* denied as unknown when it is made, whatever events for the code the
\* replica has merged.
C20_UnknownStaysUnknown ==
  [][\A d \in Devices, qrCode \in ScanCodes :
       (qrCode \notin DOMAIN pass_types[d] /\ calls' # calls /\ ScanBegin(d, qrCode))
         => /\ tasks' = tasks
            /\ DeniedUnknown(d, qrCode)' # DeniedUnknown(d, qrCode)]_vars

\* dA has merged dB's event for the code, from a delta and from a full
\* state, and a call for the code made on dA after that was denied
C20_Witness ==
  /\ \E e \in AllScans(localState["dA"]) : e.qrCode = UnknownCode
  /\ \E r \in deliveries["dA"] : r.message.type = "delta"
  /\ \E r \in deliveries["dA"] : r.message.type = "full-state"
  /\ \E r \in DeniedUnknown("dA", UnknownCode) :
       \E b \in returns : b.dev = "dB" /\ b.result.allowed /\ b.call \in r.after

(***************************************************************************)
(* Properties of the delta of a local accept (SpecScan).                   *)
(***************************************************************************)
\* the calls that return in this step with their delta built
ReturnsWithDelta == {r \in returns' \ returns : r.message # <<>>}

\* the record of pendingAcks of device d for the delta of call r and peer p
\* is there, with attempts 1 and the ip the peer had
TrackedOnce(d, r, p) ==
  LET key == <<r.message[1].messageId, p>> IN
  /\ key \in DOMAIN pendingAcks'[d]
  /\ pendingAcks'[d][key].attempts = 1
  /\ pendingAcks'[d][key].peerId = p
  /\ pendingAcks'[d][key].peerIp = knownDevices[d][p].ipAddress[1]

\* C21: when handleScannedQRCode returns from an accepted scan and known
\* peers had an ip, pendingAcks holds one record (messageId, peer) with
\* attempts 1 and the peer's ip for each of them; with no such peer the
\* delta was broadcast and pendingAcks has no record of it.
C21_TrackedPerPeer ==
  [][\A r \in ReturnsWithDelta :
       IF r.targets # {}
         THEN \A p \in r.targets : TrackedOnce(r.dev, r, p)
         ELSE /\ r.broadcast
              /\ \A key \in DOMAIN pendingAcks'[r.dev] : key[1] # r.message[1].messageId]_vars

(***************************************************************************)
(* Properties of a send that fails (SpecNet).                              *)
(***************************************************************************)
\* the handler or call in slot s of device d takes its step
Steps(d, s) == tasks'[d][s] # tasks[d][s]

\* socket.send of these datagrams, for which the network has room, has
\* called back with an error: none of them is in flight
SendFailed(dgs) == dgs # {} /\ dgs \cap net = {} /\ Room(dgs) /\ dgs \cap net' = {}

\* message is a row of broadcast_queue of device d after the step
QueuedAfter(d, message) ==
  \E i \in 1..Len(broadcast_queue'[d]) : broadcast_queue'[d][i].message = message

\* C24: a payload whose send fails at the transport is kept for a retry: a
\* unicast delta in pendingAcks, a state-request broadcast in
\* broadcast_queue.
C24_FailedSendKept ==
  [][\A d \in Devices, s \in Slots :
       /\ (tasks[d][s].pc = "scan_unicast" /\ Steps(d, s))
            => LET f == tasks[d][s]
                   peerId == Head(f.todo)
               IN SendFailed(Unicast(d, f.peerIps[peerId], f.message[1]))
                    => <<f.message[1].messageId, peerId>> \in DOMAIN pendingAcks'[d]
       /\ (tasks[d][s].pc = "h_request" /\ Steps(d, s))
            => (SendFailed(Broadcast(d, tasks[d][s].request))
                  => QueuedAfter(d, tasks[d][s].request))]_vars

(***************************************************************************)
(* SpecRetry: dA is up and knows dB, which is off and never answers.  dA   *)
(* admits one scan; its ACK retry interval fires whenever an entry is due; *)
(* the clock stands during the call and then moves in steps longer than    *)
(* ACK_TIMEOUT.  A send or a store operation may fail.  Every step that    *)
(* can be taken is taken.                                                  *)
(***************************************************************************)
RetryInstants == {k * (ACK_TIMEOUT + 1000) : k \in 1..MAX_ATTEMPTS}

InitRetry ==
  \E flt \in BOOLEAN :
    InitWith([d \in Devices |-> IF d = "dA" THEN UpMem(d, {}, KnowsPeer("dB")) ELSE OffMem],
             [d \in Devices |-> UsedStore(d, {}, IF d = "dA" THEN KnowsPeer("dB") ELSE NoPeers)],
             flt)

RetryScan == calls = 0 /\ \E qrCode \in QR_CODES : ScanBegin("dA", qrCode)

RetryFires == AckRetryTimer("dA")

RetrySends == \E s \in RetrySlots : RetrySend("dA", s)

\* The interval fires every 2 s: the clock makes its next step, longer than
\* that, when the call has returned, no callback is running and no entry is
\* due.
RetryTick ==
  /\ returns # {}
  /\ \A s \in RetrySlots : tasks["dA"][s] = Idle
  /\ Due("dA") = {}
  /\ Tick({t \in RetryInstants : \A u \in RetryInstants : u > now => t <= u})

NextRetry ==
  \/ RetryScan
  \/ ScanGoesOn("dA")
  \/ RetryFires
  \/ RetrySends
  \/ RetryTick

FairRetry ==
  /\ WF_vars(RetryScan)
  /\ WF_vars(ScanGoesOn("dA"))
  /\ WF_vars(RetryFires)
  /\ WF_vars(RetrySends)
  /\ WF_vars(RetryTick)

SpecRetry == InitRetry /\ [][NextRetry]_vars /\ FairRetry

\* C22: every record of pendingAcks is deleted in the end, by its ACK or by
\* the retry timer at MAX_ATTEMPTS, also when the peer never answers and
\* when the sends to it keep failing.
C22_PendingDeleted == (pendingAcks["dA"] # <<>>) ~> (pendingAcks["dA"] = <<>>)

\* the retry callback in slot s of device d sends the entry of key in this
\* step: the timer fires with it first in toRetry, or the loop comes to it
SendsRetry(d, s, key) ==
  /\ Steps(d, s)
  /\ tasks'[d][s].pc = "retry_send"
  /\ Head(tasks'[d][s].todo) = key
  /\ tasks[d][s].pc = "retry_send" => Head(tasks[d][s].todo) # key

\* C23: attempts of every record of pendingAcks, the number of sends of its
\* delta to its peer that succeeded, stays within 1..MAX_ATTEMPTS; a retry
\* is sent only when the record's timestamp is more than ACK_TIMEOUT ago;
\* also when two callbacks of the retry interval overlap.
C23_AtMostFiveSends ==
  [][\A d \in Devices :
       /\ \A key \in DOMAIN pendingAcks'[d] :
            pendingAcks'[d][key].attempts \in 1..MAX_ATTEMPTS
       /\ \A s \in RetrySlots, key \in DOMAIN pendingAcks'[d] :
            SendsRetry(d, s, key) => now - pendingAcks'[d][key].timestamp > ACK_TIMEOUT]_vars

(***************************************************************************)
(* SpecQueue: dA is up, alone, with rows in broadcast_queue that earlier   *)
(* failed sends left, of any number of attempts.  Its queue interval       *)
(* fires, also while an earlier callback is still at work; what it sends   *)
(* is lost.  A send or a store operation may fail.                         *)
(***************************************************************************)
QueuedDelta(k) ==
  [type |-> "delta", messageId |-> Uuid(FirstUuid + k), deltas |-> HashScan(k),
   sequenceNum |-> 1, deviceId |-> StoredId("dA")]

QueuePool ==
  {q \in UNION {[1..n -> [id : 1..MaxQueue, message : {QueuedDelta(k) : k \in 1..MaxQueue},
                          attempts : 0..MAX_QUEUE_ATTEMPTS]] : n \in 1..MaxQueue} :
     \A i \in 1..Len(q) : q[i].id = i /\ q[i].message = QueuedDelta(i)}

InitQueue ==
  \E flt \in BOOLEAN, q \in QueuePool :
    InitWith([d \in Devices |-> IF d = "dA" THEN UpMem(d, {}, NoPeers) ELSE OffMem],
             [d \in Devices |-> IF d = "dA"
                                  THEN [UsedStore(d, {}, NoPeers) EXCEPT !.broadcast_queue = q]
                                  ELSE UsedStore(d, {}, NoPeers)],
             flt)

NextQueue ==
  \/ QueueTimer("dA")
  \/ \E s \in QueueSlots : QueueRead("dA", s)
  \/ \E s \in QueueSlots : QueueSend("dA", s)
  \/ \E s \in QueueSlots : QueueRemove("dA", s)
  \/ \E s \in QueueSlots : QueueUpdate("dA", s)
  \/ \E dg \in net : Drop(dg)

SpecQueue == InitQueue /\ [][NextQueue]_vars

\* the rows of key id in a table
RowsOf(queue, id) == {i \in 1..Len(queue) : queue[i].id = id}

\* the callback in slot s of device d passes the row it holds first to
\* sendDelta in this step: the rows have been read, or the loop comes to it
SendsQueued(d, s) ==
  /\ Steps(d, s)
  /\ tasks'[d][s].pc = "q_send"
  /\ tasks[d][s].pc = "q_send" => Head(tasks'[d][s].todo) # Head(tasks[d][s].todo)

\* C25: a callback of the queue interval takes at most QUEUE_LIMIT rows of
\* fewer than MAX_QUEUE_ATTEMPTS attempts, in the order of the table, and
\* broadcasts each.  A row whose send succeeded is deleted when the
\* callback leaves it; after a failed send its attempts grow by exactly 1;
\* no row that has MAX_QUEUE_ATTEMPTS attempts or more is sent; and
\* getPendingBroadcastCount is the number of rows of fewer attempts.
C25_QueueTick ==
  [][\A s \in QueueSlots :
       LET d == "dA"
           f == tasks[d][s]
           g == tasks'[d][s]
           queue == broadcast_queue[d]
           after == broadcast_queue'[d]
           fewer == {i \in 1..Len(queue) : queue[i].attempts < MAX_QUEUE_ATTEMPTS}
       IN
       /\ (f.pc = "q_read" /\ g.pc = "q_send") =>
            /\ Len(g.todo) <= QUEUE_LIMIT
            /\ \A i \in 1..Len(g.todo) : g.todo[i].attempts < MAX_QUEUE_ATTEMPTS
            /\ \E pos \in [1..Len(g.todo) -> 1..Len(queue)] :
                 /\ \A i \in 1..Len(g.todo) : queue[pos[i]] = g.todo[i]
                 /\ \A i, j \in 1..Len(g.todo) : i < j => pos[i] < pos[j]
                 /\ \A i \in fewer : Len(g.todo) < QUEUE_LIMIT => \E j \in 1..Len(g.todo) : pos[j] = i
       /\ (f.pc = "q_remove" /\ Steps(d, s)) => RowsOf(after, Head(f.todo).id) = {}
       /\ (f.pc = "q_update" /\ Steps(d, s)) =>
            \A i \in RowsOf(queue, Head(f.todo).id) :
              \E j \in RowsOf(after, Head(f.todo).id) : after[j].attempts = queue[i].attempts + 1
       /\ SendsQueued(d, s) =>
            \A i \in RowsOf(after, Head(g.todo).id) : after[i].attempts < MAX_QUEUE_ATTEMPTS
       /\ getPendingBroadcastCount(d, TRUE) = Cardinality(fewer)]_vars

(***************************************************************************)
(* SpecInbound: dA is up, knowing dB or nobody.  Datagrams reach its       *)
(* socket from the network: a text that is no message, the echo of a       *)
(* message of its own, messages of dB with a type that switch has no case  *)
(* for, and a heartbeat of dB.  A send or a store operation may fail.      *)
(***************************************************************************)
InboundPool ==
  {[raw |-> "no json"],
   [type |-> "heartbeat", sequenceNum |-> 1, deviceId |-> StoredId("dA")],
   [type |-> "heartbeat", sequenceNum |-> 1, deviceId |-> StoredId("dB")],
   [type |-> "hello", sequenceNum |-> 1, deviceId |-> StoredId("dB")],
   [type |-> "hello", messageId |-> Uuid(FirstUuid + 1), sequenceNum |-> 1,
    deviceId |-> StoredId("dB")]}

SenderOf(message) ==
  IF Parses(message) /\ message.deviceId = StoredId("dA") THEN "dA" ELSE "dB"

InitInbound ==
  \E flt \in BOOLEAN, peers \in {NoPeers, KnowsPeer("dB")} :
    InitWith([d \in Devices |-> IF d = "dA" THEN UpMem(d, {}, peers) ELSE OffMem],
             [d \in Devices |-> UsedStore(d, {}, IF d = "dA" THEN peers ELSE NoPeers)],
             flt)

\* a datagram for dA appears in the network, each once
Arrives ==
  /\ \E message \in InboundPool :
       LET dg == [to |-> "dA", from |-> IpOf(SenderOf(message)), msg |-> message] IN
       /\ dg \notin net
       /\ \A x \in deliveries["dA"] : x.message # message
       /\ Room({dg})
       /\ net' = net \cup {dg}
  /\ UNCHANGED <<now, faulty, uuidCounter, memVars, storeVars, tasks, histVars>>

NextInbound ==
  \/ Arrives
  \/ LiveDeliver("dA")
  \/ LiveUpsert("dA")
  \/ \E s \in Slots : HRequest("dA", s)
  \/ \E dg \in net : Drop(dg)

SpecInbound == InitInbound /\ [][NextInbound]_vars

\* the claim's three kinds of datagram, for the device that receives it
ToBeDropped(d, message) ==
  \/ ~Parses(message)
  \/ message.deviceId = deviceId[d]
  \/ message.type \notin MessageTypes

\* the listener of device d takes datagram dg in this step
Takes(d, dg) == dg \in net /\ dg \notin net' /\ deliveries'[d] # deliveries[d]

\* C26: a datagram that does not parse, that the device sent itself, or
\* whose type is none of the six, changes nothing when the listener takes
\* it (replica, knownDevices, receivedMessageIds, pendingAcks, store), it
\* starts no handler, and no step made for it changes the store or sends.
C26_DroppedWithoutEffect ==
  [][\A d \in Devices :
       /\ \A dg \in net :
            (dg.to = d /\ Takes(d, dg) /\ ToBeDropped(d, dg.msg)) =>
              /\ UNCHANGED <<localState, jsonConfigState, knownDevices, receivedMessageIds,
                             pendingAcks, storeVars>>
              /\ tasks'[d] = tasks[d]
       /\ \A s \in Slots :
            (tasks[d][s].pc \in {"h_upsert", "h_request"} /\ Steps(d, s)
               /\ ToBeDropped(d, tasks[d][s].message)) =>
              /\ net' \subseteq net
              /\ UNCHANGED <<storeVars, localState, jsonConfigState, pendingAcks>>]_vars

(***************************************************************************)
(* SpecPhase: dA is up with one scan in its replica, knowing dB from the   *)
(* store or not at all.  From dB arrive, each once and in any order, a     *)
(* heartbeat, a state-hash that is dA's and a state-hash that is not; the  *)
(* clock moves up to PEER_TIMEOUT.  A send or a store operation may fail.  *)
(***************************************************************************)
PhaseRows == {HashScan(1)}

PhasePool ==
  {[type |-> "heartbeat", sequenceNum |-> 1, deviceId |-> StoredId("dB")],
   [type |-> "state-hash", stateHash |-> calculateStateHash(UpMem("dA", PhaseRows, NoPeers).localState),
    sequenceNum |-> 2, deviceId |-> StoredId("dB")],
   [type |-> "state-hash", stateHash |-> calculateStateHash(UpMem("dA", {HashScan(2)}, NoPeers).localState),
    sequenceNum |-> 3, deviceId |-> StoredId("dB")]}

InitPhase ==
  \E flt \in BOOLEAN, peers \in {NoPeers, KnowsPeer("dB")} :
    InitWith([d \in Devices |-> IF d = "dA" THEN UpMem(d, PhaseRows, peers) ELSE OffMem],
             [d \in Devices |-> UsedStore(d, IF d = "dA" THEN PhaseRows ELSE {},
                                          IF d = "dA" THEN peers ELSE NoPeers)],
             flt)

PhaseArrives ==
  /\ \E message \in PhasePool :
       LET dg == [to |-> "dA", from |-> IpOf("dB"), msg |-> message] IN
       /\ dg \notin net
       /\ \A x \in deliveries["dA"] : x.message # message
       /\ Room({dg})
       /\ net' = net \cup {dg}
  /\ UNCHANGED <<now, faulty, uuidCounter, memVars, storeVars, tasks, histVars>>

PhaseTick == Tick({10000, 20000, PEER_TIMEOUT})

NextPhase ==
  \/ PhaseArrives
  \/ PhaseTick
  \/ LiveDeliver("dA")
  \/ LiveUpsert("dA")
  \/ \E s \in Slots : HRequest("dA", s)
  \/ \E dg \in net : Drop(dg)

SpecPhase == InitPhase /\ [][NextPhase]_vars

\* the connectionState of peer p in a table knownDevices
PhaseOf(known, p) == IF p \in DOMAIN known THEN known[p].connectionState ELSE <<>>

\* device d handles in this step a state-hash of peer p that is, or is not,
\* the hash of its own replica
HandlesHash(d, p, same) ==
  \/ \E dg \in net \ net' :
       /\ dg.to = d /\ deliveries'[d] # deliveries[d]
       /\ dg.msg.type = "state-hash" /\ dg.msg.deviceId = p
       /\ (dg.msg.stateHash = calculateStateHash(localState[d])) = same
  \/ \E s \in Slots :
       /\ tasks[d][s].pc \in {"h_upsert", "h_request"} /\ Steps(d, s)
       /\ tasks[d][s].message.type = "state-hash" /\ tasks[d][s].message.deviceId = p
       /\ (tasks[d][s].message.stateHash = calculateStateHash(localState[d])) = same

\* C27: a peer enters knownDevices as connected; it becomes synced only by
\* a state-hash that matches; a synced peer leaves synced only for
\* connected and only by a state-hash that does not match; a peer whose
\* lastSeen is PEER_TIMEOUT or more ago is lost; a lost peer becomes
\* connected when the listener takes a message of it.
C27_PeerPhases ==
  [][\A d \in Devices : \A p \in DOMAIN knownDevices'[d] :
       LET old == PhaseOf(knownDevices[d], p)
           new == PhaseOf(knownDevices'[d], p)
       IN
       /\ p \notin DOMAIN knownDevices[d] => new = <<"connected">>
       /\ (new = <<"synced">> /\ old # <<"synced">>) => HandlesHash(d, p, TRUE)
       /\ (old = <<"synced">> /\ new # <<"synced">>) =>
            new = <<"connected">> /\ HandlesHash(d, p, FALSE)
       /\ now' - knownDevices'[d][p].lastSeen >= PEER_TIMEOUT => new = <<"lost">>
       /\ (old = <<"lost">> /\ knownDevices'[d][p].lastSeen # knownDevices[d][p].lastSeen) =>
            new = <<"connected">>]_vars

(***************************************************************************)
(* SpecHeart: dA is up and knows dB and dC, both with an address and both  *)
(* listening and silent but for one heartbeat of dB.  dA's heartbeat       *)
(* interval fires; the clock moves in steps of 10 s up to 40 s.  A send or *)
(* a store operation may fail.                                             *)
(***************************************************************************)
InitHeart ==
  \E flt \in BOOLEAN :
    InitWith([d \in Devices |-> UpMem(d, {}, IF d = "dA" THEN KnowsPeers({"dB", "dC"})
                                             ELSE NoPeers)],
             [d \in Devices |-> UsedStore(d, {}, IF d = "dA" THEN KnowsPeers({"dB", "dC"})
                                                 ELSE NoPeers)],
             flt)

HeartArrives ==
  LET dg == [to |-> "dA", from |-> IpOf("dB"),
             msg |-> [type |-> "heartbeat", sequenceNum |-> 1, deviceId |-> StoredId("dB"),
                      stateHash |-> <<>>]]
  IN /\ deliveries["dA"] = {}
     /\ dg \notin net
     /\ Room({dg})
     /\ net' = net \cup {dg}
     /\ UNCHANGED <<now, faulty, uuidCounter, memVars, storeVars, tasks, histVars>>

HeartTick == Tick({10000, 20000, PEER_TIMEOUT, PEER_TIMEOUT + 10000})

NextHeart ==
  \/ HeartbeatTimer("dA")
  \/ HeartbeatSend("dA", HeartbeatSlot)
  \/ HeartArrives
  \/ HeartTick
  \/ LiveDeliver("dA")
  \/ LiveUpsert("dA")
  \/ \E dg \in net : dg.to # "dA" /\ Drop(dg)

SpecHeart == InitHeart /\ [][NextHeart]_vars

\* the peers of device d that have an address and were seen less than
\* PEER_TIMEOUT ago
SeenPeers(d) ==
  {p \in DOMAIN knownDevices[d] :
     knownDevices[d][p].ipAddress # <<>> /\ now - knownDevices[d][p].lastSeen < PEER_TIMEOUT}

\* C28: when the heartbeat interval of dA fires, the heartbeat carries the hash
\* of the sender's replica and is meant, once, for exactly the peers with
\* an address whose lastSeen is less than PEER_TIMEOUT ago; no heartbeat is
\* sent to a peer whose lastSeen is PEER_TIMEOUT or more ago.
C28_HeartbeatTargets ==
  [][\A d \in {"dA"} :
       /\ (tasks[d][HeartbeatSlot] = Idle /\ sequenceNumber'[d] # sequenceNumber[d]
             /\ UNCHANGED knownDevices) =>
            IF SeenPeers(d) = {}
              THEN tasks'[d][HeartbeatSlot] = Idle
              ELSE /\ tasks'[d][HeartbeatSlot] # Idle
                   /\ SeqToSet(tasks'[d][HeartbeatSlot].todo) = SeenPeers(d)
                   /\ Len(tasks'[d][HeartbeatSlot].todo) = Cardinality(SeenPeers(d))
                   /\ tasks'[d][HeartbeatSlot].message.stateHash =
                        calculateStateHash(localState[d])
       /\ \A dg \in net' \ net :
            (dg.msg.type = "heartbeat" /\ dg.from = IpOf(d) /\ dg.msg.deviceId = deviceId[d]) =>
              \E p \in SeenPeers(d) : knownDevices[d][p].ipAddress = <<IpOf(dg.to)>>]_vars

(***************************************************************************)
(* SpecAsked: dA is up with any scans of HashPool in its replica and     *)
(* knows dC, dB or nobody; dB is up.  A state-request of dB arrives at dA. *)
(* A send or a store operation may fail.                                   *)
(***************************************************************************)
RequestOf(p) == [type |-> "state-request", sequenceNum |-> 1, deviceId |-> StoredId(p)]

InitAsked ==
  \E flt \in BOOLEAN, rows \in SUBSET HashPool,
     peers \in {NoPeers, KnowsPeer("dB"), KnowsPeer("dC")} :
    InitWith([d \in Devices |-> IF d = "dA" THEN UpMem(d, rows, peers)
                                ELSE IF d = "dB" THEN UpMem(d, {}, NoPeers) ELSE OffMem],
             [d \in Devices |-> IF d = "dA" THEN UsedStore(d, rows, peers)
                                ELSE UsedStore(d, {}, NoPeers)],
             flt)

RequestArrives ==
  LET dg == [to |-> "dA", from |-> IpOf("dB"), msg |-> RequestOf("dB")] IN
  /\ deliveries["dA"] = {}
  /\ dg \notin net
  /\ Room({dg})
  /\ net' = net \cup {dg}
  /\ UNCHANGED <<now, faulty, uuidCounter, memVars, storeVars, tasks, histVars>>

NextAsked ==
  \/ RequestArrives
  \/ LiveDeliver("dA")
  \/ LiveUpsert("dA")
  \/ \E s \in Slots : HRequest("dA", s)
  \/ \E s \in Slots : FsSend("dA", s)
  \/ \E dg \in net : dg.msg.type # "state-request" /\ Drop(dg)

SpecAsked == InitAsked /\ [][NextAsked]_vars

\* the handler in slot s of device d comes to case 'state-request' in this
\* step: behind updateDeviceState, or behind the request to a new peer
ProcessesRequest(d, s) ==
  LET f == tasks[d][s] IN
  /\ f.pc \in {"h_upsert", "h_request"}
  /\ Steps(d, s)
  /\ f.message.type = "state-request"
  /\ IF f.pc = "h_upsert"
       THEN ~f.isNewPeer /\ (~faulty \/ tasks'[d][s] # Idle)
       ELSE f.dispatch

AckedScan(k) == [HashScan(k) EXCEPT !.deviceId = StoredId("dA")]

AckedDelta(k) ==
  [type |-> "delta", messageId |-> Uuid(FirstUuid + 4 + k), deltas |-> AckedScan(k),
   sequenceNum |-> 1, deviceId |-> StoredId("dA")]

AckedKeys == {<<AckedDelta(1).messageId, StoredId("dB")>>,
              <<AckedDelta(1).messageId, StoredId("dC")>>,
              <<AckedDelta(2).messageId, StoredId("dB")>>}

WaitingAcks ==
  [key \in AckedKeys |->
     LET k == key[1][1] - FirstUuid - 4
         p == CHOOSE d \in Devices : StoredId(d) = key[2]
     IN [message |-> AckedDelta(k), peerIp |-> IpOf(p), timestamp |-> 0, attempts |-> 1,
         peerId |-> key[2]]]

AckPool ==
  {[type |-> "ack", ackMessageId |-> AckedDelta(k).messageId, sequenceNum |-> 1,
    deviceId |-> StoredId(p)] : k \in 1..3, p \in {"dB", "dC"}}

InitAck ==
  \E flt \in BOOLEAN :
    LET rows == {AckedScan(1), AckedScan(2)}
        peers == KnowsPeers({"dB", "dC"})
    IN InitWith([d \in Devices |-> IF d = "dA"
                                     THEN [UpMem(d, rows, peers) EXCEPT !.pendingAcks = WaitingAcks]
                                     ELSE OffMem],
                [d \in Devices |-> UsedStore(d, IF d = "dA" THEN rows ELSE {},
                                             IF d = "dA" THEN peers ELSE NoPeers)],
                flt)

AckArrives ==
  /\ \E message \in AckPool :
       LET p == CHOOSE d \in Devices : StoredId(d) = message.deviceId
           dg == [to |-> "dA", from |-> IpOf(p), msg |-> message]
       IN /\ dg \notin net
          /\ \A x \in deliveries["dA"] : x.message # message
          /\ Room({dg})
          /\ net' = net \cup {dg}
  /\ UNCHANGED <<now, faulty, uuidCounter, memVars, storeVars, tasks, histVars>>

NextAck ==
  \/ AckArrives
  \/ LiveDeliver("dA")
  \/ LiveUpsert("dA")
  \/ \E dg \in net : Drop(dg)

SpecAck == InitAck /\ [][NextAck]_vars

\* the handler in slot s of device d comes to case 'ack' in this step
ProcessesAck(d, s) ==
  LET f == tasks[d][s] IN
  /\ f.pc \in {"h_upsert", "h_request"}
  /\ Steps(d, s)
  /\ f.message.type = "ack"
  /\ IF f.pc = "h_upsert" THEN ~f.isNewPeer ELSE f.dispatch

InitGSet ==
  \E rowsA \in {{}}, rowsB \in {{ScanOfB}} :
    LET rows == [d \in Devices |-> IF d = "dA" THEN rowsA ELSE rowsB] IN
    InitWith([d \in Devices |-> IF d \in LiveDevices
                                  THEN UpMem(d, rows[d], KnowsPeer(PeerOf(d)))
                                  ELSE OffMem],
             [d \in Devices |-> IF d \in LiveDevices
                                  THEN UsedStore(d, rows[d], KnowsPeer(PeerOf(d)))
                                  ELSE UsedStore(d, {}, NoPeers)],
             FALSE)

NextGSet ==
  \/ ~Called("dA") /\ ScanBegin("dA", InfiniteCode)
  \/ ScanGoesOn("dA")
  \/ \E s \in Slots : HAck("dB", s)
  \/ \E d \in LiveDevices :
       \/ LiveSync(d)
       \/ LiveSend(d)
       \/ LiveDeliver(d)
       \/ LiveUpsert(d)
       \/ LiveSave(d)
       \/ LiveConfig(d)

SpecGSet == InitGSet /\ [][NextGSet]_vars

\* C31: in the replica of every device no scanId occurs twice, in one code
\* or in two: the number of scans held is the number of their ids.
C31_ScanIdsUnique ==
  \A d \in Devices : ScanIdCount(localState[d]) = Cardinality(AllScanIds(localState[d]))

\* dB holds the event dA made in this run once, and has taken it in a
\* delta and in a full state as well
C31_Witness ==
  \E e \in AllScans(localState["dB"]) :
    /\ e.deviceId = StoredId("dA") /\ e # ScanOfA
    /\ ScanIdCount(localState["dB"]) = Cardinality(AllScanIds(localState["dB"]))
    /\ \E x \in deliveries["dB"] : x.message.type = "delta" /\ e \in SeqToSet(x.message.deltas)
    /\ \E x \in deliveries["dB"] :
         x.message.type = "full-state" /\ e \in AllScans(x.message.fullState)
    /\ \A s \in Slots : tasks["dB"][s] = Idle

(***************************************************************************)
(* SpecSorted: dA runs initializeP2P on the store an earlier run left: any *)
(* rows of a pool in which a scan of dA and a scan of dB, merged then, are *)
(* of one code and one millisecond.  After init dA admits a scan and       *)
(* merges the full state of dB.  Nothing fails.                            *)
(***************************************************************************)
\* a scan of dA's in the millisecond and for the code of ScanOfB
ScanTied == [ScanOfA EXCEPT !.qrCode = InfiniteCode]

SortedPool == {ScanOfB, ScanTied, ScanNextDay}

InitSorted ==
  \E rows \in SUBSET SortedPool :
    InitWith([d \in Devices |-> IF d = "dB" THEN UpMem(d, {ScanOfB}, KnowsPeer("dA"))
                                ELSE OffMem],
             [d \in Devices |-> IF d = "dA" THEN UsedStore(d, rows, KnowsPeer("dB"))
                                ELSE IF d = "dB" THEN UsedStore(d, {ScanOfB}, KnowsPeer("dA"))
                                ELSE UsedStore(d, {}, NoPeers)],
             FALSE)

NextSorted ==
  \/ InitStep("dA")
  \/ InitDone("dA") /\ ~Called("dA") /\ ScanBegin("dA", InfiniteCode)
  \/ ScanGoesOn("dA")
  \/ LiveSync("dB")
  \/ LiveSend("dB")
  \/ LiveDeliver("dA")
  \/ LiveUpsert("dA")
  \/ LiveSave("dA")
  \/ LiveConfig("dA")
  \/ \E dg \in net : dg.to = "dB" /\ Drop(dg)

SpecSorted == InitSorted /\ [][NextSorted]_vars

\* the comparator of sortScans finds no pair of the array out of order
IsSorted(list) == \A i, j \in 1..Len(list) : i < j => ScanLeq(list[i], list[j])

\* C32: in every state, for every device and code, the scans of the code
\* in localState are in the order of sortScans: by timestamp, and by
\* deviceId among equal timestamps.
C32_ReplicaSorted ==
  \A d \in Devices : \A c \in DOMAIN localState[d] : IsSorted(localState[d][c].scans)

(***************************************************************************)
(* SpecCache: dA is up and knows dB; its cache of received ids is full or  *)
(* nearly full.  Deltas of dB with ids it has not seen arrive, each once   *)
(* and in any order, and are handled; the ACKs get lost.  Nothing fails.   *)
(***************************************************************************)
\* the cache after n messages
CacheOf(n) == [i \in 1..n |-> Uuid(FirstUuid + i)]

\* the k-th delta that arrives
FreshDelta(k) ==
  [type |-> "delta", messageId |-> Uuid(FirstUuid + MAX_RECEIVED_IDS + k), deltas |-> <<>>,
   sequenceNum |-> 1, deviceId |-> StoredId("dB")]

FreshDeltas == {FreshDelta(k) : k \in 1..3}

InitCache ==
  \E n \in (MAX_RECEIVED_IDS - 2)..MAX_RECEIVED_IDS :
    InitWith([d \in Devices |-> IF d = "dA"
                                  THEN [UpMem(d, {}, KnowsPeer("dB"))
                                          EXCEPT !.receivedMessageIds = CacheOf(n)]
                                  ELSE OffMem],
             [d \in Devices |-> UsedStore(d, {}, IF d = "dA" THEN KnowsPeer("dB") ELSE NoPeers)],
             FALSE)

CacheArrives ==
  /\ \E message \in FreshDeltas :
       LET dg == [to |-> "dA", from |-> IpOf("dB"), msg |-> message] IN
       /\ dg \notin net
       /\ \A x \in deliveries["dA"] : x.message # message
       /\ Room({dg})
       /\ net' = net \cup {dg}
  /\ UNCHANGED <<now, faulty, uuidCounter, memVars, storeVars, tasks, histVars>>

NextCache ==
  \/ CacheArrives
  \/ LiveDeliver("dA")
  \/ LiveUpsert("dA")
  \/ \E s \in Slots : HAck("dA", s)

SpecCache == InitCache /\ [][NextCache]_vars

\* C33: a step that changes the cache of received ids of a device adds one
\* id at the end; the cache never holds more than MAX_RECEIVED_IDS ids;
\* ids leave it only when the new id makes it exceed that, and then the
\* ids inserted first leave, never the new one.
C33_CacheFifo ==
  [][\A d \in Devices :
       LET old == receivedMessageIds[d]
           new == receivedMessageIds'[d]
       IN
       /\ Len(new) <= MAX_RECEIVED_IDS
       /\ new # old =>
            \E dg \in net \ net' :
              LET added == Append(old, dg.msg.messageId) IN
              /\ dg.msg.messageId \notin SeqToSet(old)
              /\ new # <<>>
              /\ new[Len(new)] = dg.msg.messageId
              /\ \E k \in 0..Len(old) : new = SubSeq(added, k + 1, Len(added))
              /\ Len(added) <= MAX_RECEIVED_IDS => new = added]_vars

\* the cache was full, a fresh id came and is the newest of those kept
C33_Witness ==
  /\ Len(receivedMessageIds["dA"]) = MAX_RECEIVED_IDS + 1 - RECEIVED_EVICT
  /\ receivedMessageIds["dA"][Len(receivedMessageIds["dA"])] \in {m.messageId : m \in FreshDeltas}
  /\ receivedMessageIds["dA"][1] = Uuid(FirstUuid + RECEIVED_EVICT + 1)

(***************************************************************************)
(* SpecEmit: dA is started on the store of an earlier run that knows dB;   *)
(* dB listens and never answers.  dA admits scans, one call after the      *)
(* other; its ACK retry interval sends again what no ACK came for; it is   *)
(* killed and started again.  Datagrams stay in the network until they    *)
(* are lost.  Nothing fails.                                               *)
(***************************************************************************)
InitEmit ==
  InitWith([d \in Devices |-> IF d = "dB" THEN UpMem(d, {}, NoPeers) ELSE OffMem],
           [d \in Devices |-> UsedStore(d, {}, IF d = "dA" THEN KnowsPeer("dB") ELSE NoPeers)],
           FALSE)

EmitScan ==
  /\ InitDone("dA")
  /\ calls < MaxCalls
  /\ \A s \in Slots : tasks["dA"][s] = Idle
  /\ \E qrCode \in QR_CODES : ScanBegin("dA", qrCode)

EmitRestart == InitDone("dA") /\ Restart("dA")

NextEmit ==
  \/ InitStep("dA")
  \/ EmitRestart
  \/ EmitScan
  \/ ScanGoesOn("dA")
  \/ AckRetryTimer("dA")
  \/ \E s \in RetrySlots : RetrySend("dA", s)
  \/ Tick(NetInstants)
  \/ LiveDeliver("dA")
  \/ \E dg \in net : Drop(dg)

SpecEmit == InitEmit /\ [][NextEmit]_vars

\* datagram dg was sent by device d
EmittedBy(d, dg) == dg.from = IpOf(d) /\ dg.msg.deviceId = StoredId(d)

\* C34: a datagram that a device puts into the network carries a
\* sequenceNum that is not below that of any datagram the device sent
\* before and that is still on its way, and not equal to that of a
\* different message of the device.  (Values at MaxSeq stand for any
\* larger value and are not compared for equality.)
C34_SequenceMonotonic ==
  [][\A d \in Devices : \A new \in net' \ net : \A old \in net :
       (EmittedBy(d, new) /\ EmittedBy(d, old)) =>
         /\ old.msg.sequenceNum <= new.msg.sequenceNum
         /\ (old.msg # new.msg /\ new.msg.sequenceNum < MaxSeq) =>
              old.msg.sequenceNum # new.msg.sequenceNum]_vars

(***************************************************************************)
(* SpecPersist: store operations and sends fail for a while and then       *)
(* succeed for good.  dA starts with an empty replica, admits one scan of  *)
(* the infinite code and merges the full states that dB's sync interval    *)
(* sends; dB holds one event of an earlier run.  The device is not         *)
(* restarted.  dB's sync interval fires for ever; every step that can be    *)
(* taken is taken in the end.                                              *)
(***************************************************************************)
InitPersist ==
  LET rows == [d \in Devices |-> IF d = "dB" THEN {ScanOfB} ELSE {}] IN
  InitWith([d \in Devices |-> IF d \in LiveDevices
                                THEN UpMem(d, rows[d], KnowsPeer(PeerOf(d)))
                                ELSE OffMem],
           [d \in Devices |-> IF d \in LiveDevices
                                THEN UsedStore(d, rows[d], KnowsPeer(PeerOf(d)))
                                ELSE UsedStore(d, {}, NoPeers)],
           TRUE)

\* from now on every store operation and every send succeeds
Heal ==
  /\ faulty
  /\ faulty' = FALSE
  /\ UNCHANGED <<now, net, uuidCounter, memVars, storeVars, tasks, histVars>>

PersistScan == ~Called("dA") /\ ScanBegin("dA", InfiniteCode)

PersistDrop == \E dg \in net : dg.to = "dB" /\ Drop(dg)

NextPersist ==
  \/ Heal
  \/ PersistScan
  \/ ScanGoesOn("dA")
  \/ SyncTimer("dB")
  \/ LiveSend("dB")
  \/ LiveDeliver("dA")
  \/ LiveUpsert("dA")
  \/ LiveSave("dA")
  \/ LiveConfig("dA")
  \/ PersistDrop

FairPersist ==
  /\ WF_vars(Heal)
  /\ WF_vars(PersistScan)
  /\ WF_vars(ScanGoesOn("dA"))
  /\ WF_vars(SyncTimer("dB"))
  /\ WF_vars(LiveSend("dB"))
  /\ WF_vars(LiveDeliver("dA"))
  /\ WF_vars(LiveUpsert("dA"))
  /\ WF_vars(LiveSave("dA"))
  /\ WF_vars(LiveConfig("dA"))
  /\ WF_vars(PersistDrop)

SpecPersist == InitPersist /\ [][NextPersist]_vars /\ FairPersist

\* the events dA's replica can come to hold: dB's event and the event of
\* dA's own scan, whatever uuid it got
PersistEvents ==
  {ScanOfB} \cup
  {[scanId |-> Uuid(k), qrCode |-> InfiniteCode, timestamp |-> 0,
    deviceId |-> StoredId("dA"), date |-> getTodayKey(0)] :
     k \in (FirstUuid + 1)..(FirstUuid + 2 * (MaxSeq + MaxCalls))}

\* C35: every event that is in dA's in-memory replica is in table scans of
\* dA's store at some later time, store writes succeeding in the end.
C35_MemoryReachesStore ==
  \A e \in PersistEvents :
    (e \in AllScans(localState["dA"])) ~> (e \in scans["dA"])

(***************************************************************************)
(* Calls of handleScannedQRCode that return allowed = false (SpecScan).    *)
(***************************************************************************)
\* the calls that returned allowed = false
Refused == {r \in returns : ~r.result.allowed}

\* call r pushed no event that the replica of its device holds
PushedNothing(r) == \A e \in AllScans(localState[r.dev]) : r.event # <<e>>

\* call r sent no delta: either it built none, or the one it built is
\* neither in the network nor tracked for an ACK
SentNoDelta(r) ==
  \/ r.message = <<>>
  \/ /\ \A dg \in net : dg.msg # r.message[1]
     /\ \A key \in DOMAIN pendingAcks[r.dev] : key[1] # r.message[1].messageId

\* C36: a call of handleScannedQRCode that returned allowed = false, denied
\* by validateScan or failed while the scan was processed, has left no event
\* in the replica of its device and has sent no delta.
C36_RefusedLeavesNoTrace ==
  \A r \in Refused : PushedNothing(r) /\ SentNoDelta(r)

(***************************************************************************)
(* SpecMarked: two deltas of dB, one event each, arrive at dA, each at     *)
(* most twice (the second is a retransmission).  dA knows dB or meets it   *)
(* with the first datagram; store operations and sends may fail.           *)
(***************************************************************************)
MarkedScan(k) ==
  IF k = 1 THEN ScanOfB
  ELSE [ScanOfB EXCEPT !.scanId = Uuid(FirstUuid + 10), !.qrCode = OneUseCode]

MarkedDelta(k) ==
  [type |-> "delta", messageId |-> Uuid(FirstUuid + 10 + k), deltas |-> <<MarkedScan(k)>>,
   sequenceNum |-> k, deviceId |-> StoredId("dB")]

MarkedDeltas == {MarkedDelta(k) : k \in 1..2}

InitMarked ==
  \E flt \in BOOLEAN, peers \in {NoPeers, KnowsPeer("dB")} :
    InitWith([d \in Devices |-> IF d = "dA" THEN UpMem(d, {}, peers) ELSE OffMem],
             [d \in Devices |-> UsedStore(d, {}, IF d = "dA" THEN peers ELSE NoPeers)],
             flt)

\* the delta, or its retransmission once its first copy was taken
MarkedArrives ==
  /\ \E message \in MarkedDeltas :
       LET dg == [to |-> "dA", from |-> IpOf("dB"), msg |-> message] IN
       /\ dg \notin net
       /\ \A x \in deliveries["dA"] : x.message = message => ~x.duplicate
       /\ Room({dg})
       /\ net' = net \cup {dg}
  /\ UNCHANGED <<now, faulty, uuidCounter, memVars, storeVars, tasks, histVars>>

NextMarked ==
  \/ MarkedArrives
  \/ LiveDeliver("dA")
  \/ LiveUpsert("dA")
  \/ \E s \in Slots : HRequest("dA", s)
  \/ LiveSave("dA")
  \/ LiveConfig("dA")
  \/ \E s \in Slots : HAck("dA", s)

SpecMarked == InitMarked /\ [][NextMarked]_vars

\* device d took a datagram with this message and no handler of d is at it
HandlingFinished(d, message) ==
  /\ \E x \in deliveries[d] : x.message = message
  /\ \A s \in Slots : tasks[d][s] = Idle \/ tasks[d][s].message # message

\* C37: when the handling of a delta has finished and its messageId is in
\* receivedMessageIds, every event of the delta is in the replica.
C37_MarkedMeansMerged ==
  \A message \in MarkedDeltas :
    (/\ HandlingFinished("dA", message)
     /\ isMessageReceived("dA", message.messageId))
      => SeqToSet(message.deltas) \subseteq AllScans(localState["dA"])

(***************************************************************************)
(* Datagrams taken while initializeP2P runs (SpecInit).                    *)
(***************************************************************************)
\* device d took the full state of delivery x and its handler is past the
\* merge into localState
MergedFullState(d, x) ==
  /\ "fullState" \in DOMAIN x.message
  /\ x.message.type = "full-state"
  /\ x.message.deviceId # deviceId[d]
  /\ \A s \in Slots : \/ tasks[d][s] = Idle
                      \/ tasks[d][s].message # x.message
                      \/ tasks[d][s].pc \notin {"h_upsert", "h_request"}

\* C38: when initializeP2P has completed, the events of every full state
\* that the device merged, those merged between the bind of the socket and
\* the end of Storage.loadState included, are in the replica.
C38_MergedDuringInitKept ==
  \A d \in {"dA"} :
    InitDone(d) =>
      \A x \in deliveries[d] :
        MergedFullState(d, x) => AllScans(x.message.fullState) \subseteq AllScans(localState[d])

(***************************************************************************)
(* SpecSelf: dA is started on the store of an earlier run that knows dB,   *)
(* admits scans of one code, is killed and started again.  Its broadcasts  *)
(* come back to its own socket.  dB is up, knows dA, and its sync interval *)
(* sends its full state.  Nothing fails.                                   *)
(***************************************************************************)
InitSelf ==
  InitWith([d \in Devices |-> IF d = "dB" THEN UpMem(d, {ScanOfB}, KnowsPeer("dA"))
                              ELSE OffMem],
           [d \in Devices |-> UsedStore(d, IF d = "dB" THEN {ScanOfB} ELSE {},
                                        IF d = "dC" THEN NoPeers ELSE KnowsPeer(PeerOf(d)))],
           FALSE)

SelfScan ==
  /\ InitDone("dA")
  /\ calls < MaxCalls
  /\ \A s \in Slots : tasks["dA"][s] = Idle
  /\ ScanBegin("dA", InfiniteCode)

SelfRestart ==
  /\ InitDone("dA")
  /\ \A s \in Slots : tasks["dA"][s] = Idle
  /\ Restart("dA")

NextSelf ==
  \/ InitStep("dA")
  \/ SelfRestart
  \/ SelfScan
  \/ ScanGoesOn("dA")
  \/ LiveSync("dB")
  \/ LiveSend("dB")
  \/ LiveDeliver("dA")
  \/ LiveUpsert("dA")
  \/ \E s \in Slots : HRequest("dA", s)
  \/ LiveSave("dA")
  \/ LiveConfig("dA")
  \/ \E dg \in net : dg.to = "dB" /\ Drop(dg)

SpecSelf == InitSelf /\ [][NextSelf]_vars

\* C39: the device's own deviceId is no key of knownDevices and of the
\* stored table device_state, and no record of pendingAcks names the device
\* itself as its peer.
C39_NeverOwnPeer ==
  \A d \in Devices :
    /\ deviceId[d] # <<>> =>
         /\ deviceId[d] \notin DOMAIN knownDevices[d]
         /\ \A key \in DOMAIN pendingAcks[d] :
              key[2] # deviceId[d] /\ pendingAcks[d][key].peerId # deviceId[d]
    /\ settings[d].device_id # <<>> =>
         settings[d].device_id[1] \notin DOMAIN device_state[d]

\* dA has taken a datagram of its own from the network, has loaded or met a
\* peer, and waits for the ACK of a delta
C39_Witness ==
  /\ \E x \in deliveries["dA"] : isFromSelf("dA", x.message)
  /\ DOMAIN knownDevices["dA"] # {}
  /\ DOMAIN pendingAcks["dA"] # {}
  /\ DOMAIN device_state["dA"] # {}

(***************************************************************************)
(* SpecDigest: calculateStateHash as a function of the replica.  dA and dB *)
(* start with empty replicas; events of a pool are appended (addScanEvent) *)
(* or merged in batches (mergeDeltaScans) in any order.  The pool has each *)
(* scanId under either code, later ids with earlier timestamps; a replica  *)
(* never takes a scanId twice.                                             *)
(***************************************************************************)
MaxDigest == 3

DigestScan(k, qrCode) ==
  [scanId |-> Uuid(FirstUuid + k), qrCode |-> qrCode, timestamp |-> MaxDigest - k,
   deviceId |-> StoredId("dC"), date |-> getTodayKey(0)]

DigestPool == {DigestScan(k, qrCode) : k \in 1..MaxDigest, qrCode \in QR_CODES}

\* the string "empty"
EmptyHash == <<>>

InitDigest ==
  InitWith([d \in Devices |-> IF d \in LiveDevices THEN UpMem(d, {}, KnowsPeer(PeerOf(d)))
                              ELSE OffMem],
           [d \in Devices |-> UsedStore(d, {}, IF d \in LiveDevices THEN KnowsPeer(PeerOf(d))
                                               ELSE NoPeers)],
           FALSE)

DigestOnly ==
  UNCHANGED <<envVars, net, uuidCounter, db, socket, deviceId, sequenceNumber,
              jsonConfigState, knownDevices, pendingAcks, receivedMessageIds, intervals,
              storeVars, tasks, histVars>>

\* addScanEvent's push of one event
DigestAppend(d) ==
  /\ \E e \in DigestPool :
       /\ e.scanId \notin AllScanIds(localState[d])
       /\ localState' = [localState EXCEPT ![d] = PushLocal(@, e)]
  /\ DigestOnly

\* mergeDeltaScans' merge of a batch of two events
DigestMerge(d) ==
  /\ \E e1 \in DigestPool, e2 \in DigestPool :
       /\ e1.scanId # e2.scanId
       /\ {e1.scanId, e2.scanId} \cap AllScanIds(localState[d]) = {}
       /\ localState' = [localState EXCEPT ![d] = MergeMemory(@, <<e1, e2>>)[1]]
  /\ DigestOnly

NextDigest == \E d \in LiveDevices : DigestAppend(d) \/ DigestMerge(d)

SpecDigest == InitDigest /\ [][NextDigest]_vars

\* C40: two replicas with the same set of scanIds have the same
\* calculateStateHash, whatever the order in which their events came and
\* whatever code each event stands under; a replica without events hashes
\* to "empty", and no other does.
C40_HashOfIdSet ==
  /\ AllScanIds(localState["dA"]) = AllScanIds(localState["dB"])
       => calculateStateHash(localState["dA"]) = calculateStateHash(localState["dB"])
  /\ \A d \in LiveDevices :
       (AllScanIds(localState[d]) = {}) <=> (calculateStateHash(localState[d]) = EmptyHash)

\* dA and dB hold the same three scanIds, grouped differently
C40_Witness ==
  /\ AllScanIds(localState["dA"]) = AllScanIds(localState["dB"])
  /\ Cardinality(AllScanIds(localState["dA"])) = MaxDigest
  /\ \E c \in QR_CODES : Len(localState["dA"][c].scans) # Len(localState["dB"][c].scans)

====
